---------------------------- MODULE Spec2Model ----------------------------
(***************************************************************************)
(* Dispatch agent: the deterministic triage core (signal extraction,       *)
(* category classification, confidence engine, review gate) and the       *)
(* /api/execute pipeline that drives it.                                   *)
(*                                                                         *)
(* Numbers: every confidence, score and threshold is an integer number of  *)
(* thousandths (0.85 is 850).  The Python code computes in binary          *)
(* floating point; all the values drawn below are exact multiples of       *)
(* 0.001 that never sit on a half-cent, so the rounding of round(x, 2)     *)
(* and of the :.2f formats is decided by the decimal value alone.          *)
(*                                                                         *)
(* Texts are TLA+ strings; the substring tests of the code ("v in t") are  *)
(* substring tests here.                                                   *)
(***************************************************************************)
EXTENDS Integers, Sequences, FiniteSets, TLC

\* Python's None, and an absent dictionary key, for string-valued fields.
None == "<None>"

\* ------------------------------------------------------------------------
\* Strings
\* ------------------------------------------------------------------------

\* Python's  p in t  for strings.
Contains(t, p) ==
  \E i \in 1..(Len(t) - Len(p) + 1) : SubSeq(t, i, i + Len(p) - 1) = p

\* any(p in t for p in phrases)
has_any(t, phrases) == \E p \in phrases : Contains(t, p)

UpperChars == "ABCDEFGHIJKLMNOPQRSTUVWXYZ"
LowerChars == "abcdefghijklmnopqrstuvwxyz"

LowerChar(c) ==
  IF \E i \in 1..Len(UpperChars) : SubSeq(UpperChars, i, i) = c
    THEN LET i == CHOOSE j \in 1..Len(UpperChars) : SubSeq(UpperChars, j, j) = c
         IN  SubSeq(LowerChars, i, i)
    ELSE c

RECURSIVE LowerFrom(_, _)
LowerFrom(s, i) ==
  IF i > Len(s) THEN "" ELSE LowerChar(SubSeq(s, i, i)) \o LowerFrom(s, i + 1)

\* str.lower()
Lower(s) == LowerFrom(s, 1)

Whitespace == {" "}

\* bool(str.strip()): some character of s is not whitespace.
NonBlank(s) == \E i \in 1..Len(s) : SubSeq(s, i, i) \notin Whitespace

\* Python truthiness of an optional string: neither None nor "".
Truthy(v) == v # None /\ v # ""

\* (v or "")
OrEmpty(v) == IF Truthy(v) THEN v ELSE ""

DigitChars == "0123456789"

\* The decimal digit d (0..9) as a one-character string.
Digit(d) == SubSeq(DigitChars, d + 1, d + 1)

RECURSIVE IntStr(_)
IntStr(n) == IF n < 10 THEN Digit(n) ELSE IntStr(n \div 10) \o Digit(n % 10)

\* f"{x:.2f}" of a value of h hundredths.
FmtHundredths(h) ==
  IntStr(h \div 100) \o "." \o Digit((h \div 10) % 10) \o Digit(h % 10)

\* round(x, 2): x in thousandths, the result in thousandths.
Round2(x) == ((x + 5) \div 10) * 10

\* f"{x:.2f}" of a value of x thousandths.
Fmt2(x) == FmtHundredths((x + 5) \div 10)

RECURSIVE JoinFrom(_, _, _)
JoinFrom(parts, sep, i) ==
  IF i > Len(parts) THEN ""
  ELSE IF i = Len(parts) THEN parts[i]
  ELSE parts[i] \o sep \o JoinFrom(parts, sep, i + 1)

\* sep.join(parts)
Join(parts, sep) == JoinFrom(parts, sep, 1)

Max(a, b) == IF a >= b THEN a ELSE b
Min(a, b) == IF a <= b THEN a ELSE b

\* ------------------------------------------------------------------------
\* Dictionaries
\* ------------------------------------------------------------------------

\* A key the dictionary does not hold.
Missing == "<missing>"

\* d.get(k): None when the key is absent.
Get(v) == IF v = Missing THEN None ELSE v

\* d.get(k, default)
GetOr(v, default) == IF v = Missing THEN default ELSE v

\* str(v) as an f-string renders it.
PyStr(v) == IF v = None THEN "None" ELSE v

\* ------------------------------------------------------------------------
\* Confidence engine: build_dispatch_decision (core/decision.py)
\* ------------------------------------------------------------------------

agency_vote_ratio_threshold == 700
score_threshold == 620

DefaultStub == 500
CategoryPenalty == 150
SafetyHighFloor == 850
LocationPenalty == 100
TimePenalty == 50
MinConfidence == 50
VagueCap == 350
NoLocationCap == 400
OverrideBase == 600
OverrideBoost == 100
OverrideCap == 800
ConfirmBoost == 50
ConfirmCap == 750
WeakPenalty == 50
WeakFloor == 200

vague_signals ==
  { "weird", "strange", "not sure", "maybe",
    "something", "feels off", "smells funny",
    "i think", "might be", "kind of", "sort of" }

\* text = (complaint_text or "").lower();  any(v in text for v in vague_signals)
is_vague_text(complaint_text) ==
  has_any(Lower(OrEmpty(complaint_text)), vague_signals)

C5Text == "loud party at 2am in Brooklyn, recurring every weekend"

\* The complaint texts the decide-and-gate segment is entered with.
EngineTexts == {None, C5Text, "I think Something is burning"}

\* is_vague_text over EngineTexts, evaluated once.
VagueEngineTexts == {t \in EngineTexts : is_vague_text(t)}

\* is_vague, from parsed.get("complaint_text")
is_vague(parsed) ==
  IF Get(parsed.complaint_text) \in EngineTexts
    THEN Get(parsed.complaint_text) \in VagueEngineTexts
    ELSE is_vague_text(Get(parsed.complaint_text))

\* bool(str(location or "").strip()) or bool(str(location_details or "").strip())
has_any_location(parsed) ==
  \/ NonBlank(OrEmpty(Get(parsed.location)))
  \/ NonBlank(OrEmpty(Get(parsed.location_details)))

\* parsed.get("category") in (None, "unknown")
category_unknown(parsed) == Get(parsed.category) \in {None, "unknown"}

\* float(draft_decision.get("confidence_stub", 0.5)); an absent stub is <<>>.
seed_confidence(draft) ==
  IF draft.confidence_stub = <<>> THEN DefaultStub ELSE draft.confidence_stub[1]

\* if category in (None, "unknown"): confidence -= 0.15
category_penalty(c, parsed) ==
  IF category_unknown(parsed) THEN c - CategoryPenalty ELSE c

\* Variant of safety_floor: the floor for safety complaints of high urgency
\* left out.
safety_floor_off(c, parsed, draft) == c

\* if category == "safety" and urgency_guess == "high": max(confidence, 0.85)
safety_floor(c, parsed, draft) ==
  IF Get(parsed.category) = "safety" /\ draft.urgency_guess = "high"
    THEN Max(c, SafetyHighFloor) ELSE c

\* if not has_any_location: confidence -= 0.10
location_penalty(c, has_location) ==
  IF ~has_location THEN c - LocationPenalty ELSE c

\* if not parsed.get("time_24h"): confidence -= 0.05
time_penalty(c, parsed) ==
  IF ~Truthy(Get(parsed.time_24h)) THEN c - TimePenalty ELSE c

\* Variant of floor_confidence: no floor after the penalties.
floor_confidence_off(c) == c

\* confidence = max(0.05, confidence)
floor_confidence(c) == Max(MinConfidence, c)

\* The local variable confidence where the cap step begins (has_location is
\* the local has_any_location).
penalized_confidence(parsed, draft, has_location) ==
  floor_confidence(
    time_penalty(
      location_penalty(
        safety_floor(category_penalty(seed_confidence(draft), parsed),
                     parsed, draft),
        has_location),
      parsed))

\* Variant of cap_vague: the cap on vague complaints left out.
cap_vague_off(c, vague) == c

\* if is_vague: confidence = min(confidence, 0.35)
cap_vague(c, vague) == IF vague THEN Min(c, VagueCap) ELSE c

\* if not has_any_location: confidence = min(confidence, 0.40)
cap_no_location(c, has_location) ==
  IF ~has_location THEN Min(c, NoLocationCap) ELSE c

\* The local variable confidence where the evidence step begins.
capped_confidence(c, vague, has_location) ==
  cap_no_location(cap_vague(c, vague), has_location)

\* ------------------------------------------------------------------------
\* Evidence: summarize_evidence (core/rag.py)
\* ------------------------------------------------------------------------

\* agencies[agency] = agencies.get(agency, 0) + 1, the dictionary kept as the
\* sequence of its items in insertion order.
count_agency(agencies, agency) ==
  IF \E i \in 1..Len(agencies) : agencies[i].agency = agency
    THEN [i \in 1..Len(agencies) |->
            IF agencies[i].agency = agency
              THEN [agencies[i] EXCEPT !.count = @ + 1]
              ELSE agencies[i]]
    ELSE Append(agencies, [agency |-> agency, count |-> 1])

RECURSIVE count_agencies(_, _, _)
count_agencies(cases, i, agencies) ==
  IF i > Len(cases) THEN agencies
  ELSE count_agencies(cases, i + 1,
         IF Truthy(cases[i].agency)
           THEN count_agency(agencies, cases[i].agency)
           ELSE agencies)

RECURSIVE max_score(_, _, _)
max_score(cases, i, top) ==
  IF i > Len(cases) THEN top
  ELSE max_score(cases, i + 1,
         IF cases[i].score = <<>> THEN top
         ELSE IF top = <<>> THEN cases[i].score
         ELSE <<Max(top[1], cases[i].score[1])>>)

\* summarize_evidence(cases) for a list of case records: the fields the
\* confidence engine reads (top_cases and evidence_summary are display only).
summarize_evidence(cases) ==
  [ kind          |-> "dict",
    agency_counts |-> count_agencies(cases, 1, <<>>),
    total_matches |-> Len(cases),
    top_score     |-> max_score(cases, 1, <<>>) ]

\* evidence=None
NoEvidence ==
  [ kind |-> "None", agency_counts |-> <<>>, total_matches |-> 0,
    top_score |-> <<>> ]

\* evidence={}: a dictionary, and falsy like None
EmptyEvidence ==
  [ kind |-> "empty", agency_counts |-> <<>>, total_matches |-> 0,
    top_score |-> <<>> ]

\* ------------------------------------------------------------------------
\* Evidence fusion (build_dispatch_decision, continued)
\* ------------------------------------------------------------------------

\* max(agency_counts, key=agency_counts.get): the first key, in insertion
\* order, whose count is the highest; None for an empty dictionary.
top_agency_of(agency_counts) ==
  IF agency_counts = <<>> THEN None
  ELSE LET best == CHOOSE i \in 1..Len(agency_counts) :
                     /\ \A j \in 1..Len(agency_counts) :
                          agency_counts[j].count <= agency_counts[i].count
                     /\ \A j \in 1..(i - 1) :
                          agency_counts[j].count < agency_counts[i].count
       IN  agency_counts[best].agency

\* agency_counts.get(top_agency, 0)
top_count_of(agency_counts) ==
  IF agency_counts = <<>> THEN 0
  ELSE LET a == top_agency_of(agency_counts)
           i == CHOOSE j \in 1..Len(agency_counts) : agency_counts[j].agency = a
       IN  agency_counts[i].count

\* vote_ratio >= threshold, with vote_ratio = top_count / total_matches if
\* total_matches else 0.0 (threshold in thousandths).
vote_ratio_at_least(top_count, total_matches, threshold) ==
  IF total_matches = 0 THEN 0 >= threshold
  ELSE top_count * 1000 >= threshold * total_matches

\* f"{vote_ratio:.2f}"
fmt_vote_ratio(top_count, total_matches) ==
  IF total_matches = 0 THEN FmtHundredths(0)
  ELSE FmtHundredths((200 * top_count + total_matches) \div (2 * total_matches))

\* strong_evidence (only evaluated when top_score is not None)
strong_evidence(evidence) ==
  /\ evidence.top_score # <<>>
  /\ vote_ratio_at_least(top_count_of(evidence.agency_counts),
                         evidence.total_matches, agency_vote_ratio_threshold)
  /\ evidence.top_score[1] >= score_threshold

\* strong_evidence and not is_vague and parsed.get("category") != "unknown"
boost_condition(parsed, evidence, vague) ==
  /\ strong_evidence(evidence)
  /\ ~vague
  /\ Get(parsed.category) # "unknown"

\* Variant of override_confidence: the boost without the lift to 0.60.
override_confidence_unlifted(c) == Min(OverrideCap, c + OverrideBoost)

\* confidence = min(0.80, max(confidence, 0.60) + 0.10)
override_confidence(c) == Min(OverrideCap, Max(c, OverrideBase) + OverrideBoost)

\* Variant of confirm_confidence: agreement caps but does not raise.
confirm_confidence_flat(c) == Min(ConfirmCap, c)

\* confidence = min(0.75, confidence + 0.05)
confirm_confidence(c) == Min(ConfirmCap, c + ConfirmBoost)

\* Variant of weak_confidence: the penalty without its floor.
weak_confidence_unfloored(c) == c - WeakPenalty

\* confidence = max(0.20, confidence - 0.05)
weak_confidence(c) == Max(WeakFloor, c - WeakPenalty)

\* Which way the evidence step goes.
fusion_branch(parsed, draft, evidence, vague) ==
  IF evidence.kind # "dict" THEN "no_evidence"
  ELSE IF ~(Truthy(top_agency_of(evidence.agency_counts))
            /\ evidence.top_score # <<>>) THEN "no_fusion"
  ELSE IF ~boost_condition(parsed, evidence, vague) THEN "penalty"
  ELSE IF top_agency_of(evidence.agency_counts) # draft.agency_guess
    THEN "override"
  ELSE "confirm"

\* Variant of fused_confidence: the mild penalty also applied when the
\* evidence step is skipped.
fused_confidence_always(c, branch) ==
  CASE branch = "override" -> override_confidence(c)
    [] branch = "confirm"  -> confirm_confidence(c)
    [] OTHER               -> weak_confidence(c)

\* The local variable confidence after the evidence step.
fused_confidence(c, branch) ==
  CASE branch = "override" -> override_confidence(c)
    [] branch = "confirm"  -> confirm_confidence(c)
    [] branch = "penalty"  -> weak_confidence(c)
    [] OTHER               -> c

\* Variant of fused_draft: the top agency written whenever the evidence is
\* weighed.
fused_draft_any(draft, evidence, branch) ==
  IF branch \in {"override", "confirm", "penalty"}
    THEN [draft EXCEPT !.agency_guess = top_agency_of(evidence.agency_counts)]
    ELSE draft

\* draft_decision["agency_guess"] = top_agency, in the override branch only.
fused_draft(draft, evidence, branch) ==
  IF branch = "override"
    THEN [draft EXCEPT !.agency_guess = top_agency_of(evidence.agency_counts)]
    ELSE draft

\* justification_parts before the evidence step.
signal_parts(parsed) ==
  (IF Truthy(Get(parsed.time_24h))
     THEN <<"time=" \o parsed.time_24h>> ELSE <<>>)
  \o (IF Truthy(Get(parsed.recurrence))
        THEN <<"recurrence=" \o parsed.recurrence>> ELSE <<>>)
  \o (IF Truthy(Get(parsed.location)) \/ Truthy(Get(parsed.location_details))
        THEN <<"location=" \o (IF Truthy(Get(parsed.location))
                                 THEN parsed.location
                                 ELSE parsed.location_details)>>
        ELSE <<>>)
  \o <<"category=" \o PyStr(GetOr(parsed.category, "unknown"))>>

\* justification_parts appended by the evidence step.
evidence_parts(evidence) ==
  IF evidence.kind = "dict" /\ Truthy(top_agency_of(evidence.agency_counts))
    THEN <<"evidence_top_agency=" \o top_agency_of(evidence.agency_counts),
           "evidence_vote_ratio="
             \o fmt_vote_ratio(top_count_of(evidence.agency_counts),
                               evidence.total_matches)>>
         \o (IF evidence.top_score # <<>>
               THEN <<"evidence_top_score=" \o Fmt2(evidence.top_score[1])>>
               ELSE <<>>)
    ELSE <<>>

\* build_dispatch_decision(parsed, draft_decision, evidence): the Decision it
\* returns, the draft as passed in (draft_in) and as the call leaves it
\* (draft), and the values the local variable confidence went through.
build_dispatch_decision(parsed, draft, evidence) ==
  LET vague        == is_vague(parsed)
      has_location == has_any_location(parsed)
      penalized    == penalized_confidence(parsed, draft, has_location)
      capped       == capped_confidence(penalized, vague, has_location)
      branch       == fusion_branch(parsed, draft, evidence, vague)
      fused        == fused_confidence(capped, branch)
      after        == fused_draft(draft, evidence, branch)
  IN  [ decision |->
          [ agency        |-> after.agency_guess,
            urgency       |-> after.urgency_guess,
            action        |-> after.action_guess,
            justification |->
              Join(signal_parts(parsed) \o evidence_parts(evidence), ", "),
            confidence    |-> Round2(fused) ],
        draft_in  |-> draft,
        draft     |-> after,
        branch    |-> branch,
        is_vague  |-> vague,
        has_any_location |-> has_location,
        seeded    |-> seed_confidence(draft),
        penalized |-> penalized,
        capped    |-> capped,
        fused     |-> fused ]

\* ------------------------------------------------------------------------
\* Review gate (execute, main.py, "Confidence gating")
\* ------------------------------------------------------------------------

ReviewThreshold == 600

\* critical_missing, in the order the code appends.
critical_missing_of(parsed) ==
  (IF Get(parsed.category) \in {None, "unknown"} THEN <<"category">> ELSE <<>>)
  \o (IF ~Truthy(Get(parsed.location)) THEN <<"location">> ELSE <<>>)

\* Variant of needs_review_of: the threshold itself is sent to review.
needs_review_inclusive(confidence, critical_missing) ==
  confidence <= ReviewThreshold \/ Len(critical_missing) > 0

\* needs_review = confidence < 0.6 or len(critical_missing) > 0
needs_review_of(confidence, critical_missing) ==
  confidence < ReviewThreshold \/ Len(critical_missing) > 0

\* The gate's result for a Decision: what the Confidence_Gating and
\* Human_Review_Escalation steps record.
review_gate(decision, parsed) ==
  LET missing == critical_missing_of(parsed)
      needs   == needs_review_of(decision.confidence, missing)
  IN  [ confidence         |-> decision.confidence,
        critical_missing   |-> missing,
        passes             |-> ~needs,
        needs_human_review |-> needs,
        reason             |-> IF needs THEN "low_confidence_or_missing_info"
                               ELSE "none" ]

\* ------------------------------------------------------------------------
\* State
\* ------------------------------------------------------------------------

VARIABLES
  parsed,           \* the ParsedComplaint dictionary
  draft_decision,   \* the DraftDecision dictionary (mutated by the engine)
  evidence,         \* the EvidenceSummary handed to the engine
  epc,              \* where the decide-and-gate segment stands
  call,             \* what build_dispatch_decision returned and went through
  review,           \* what the review gate recorded
  input_text,       \* the complaint text handed to the signal extractor
  signals,          \* what the signal extractor and urgency scorer returned
  req,              \* the ExecuteRequest of the execute call
  pc,               \* where the execute call stands
  complaint,        \* execute: the stored complaint fetched for complaint_id
  prompt_text,      \* execute: the text the pipeline runs on
  cases,            \* execute: what retrieve_similar_cases returned
  steps,            \* execute: the steps trace
  payload,          \* execute: the response returned to the client
  executions,       \* the executions table of the store
  complaint_status, \* the status column of the stored complaint
  objects,          \* the draft dictionaries of two engine callers, by identity
  callers,          \* two callers of the engine: inputs, position, locals
  upsert_args,      \* pinecone_upsert: the parsed command line
  index_ids,        \* pinecone_upsert: the ids in the index when main starts
  records,          \* pinecone_upsert: the local list records
  existing_ids,     \* pinecone_upsert: what the preflight found
  buffer,           \* pinecone_upsert: the batch being filled
  cursor,           \* pinecone_upsert: how many records the loop has taken
  upsert_calls,     \* pinecone_upsert: the batches passed to index.upsert
  upc,              \* pinecone_upsert: where main stands
  dotenv_loaded,    \* rag: the module global _DOTENV_LOADED
  environ,          \* rag: the keys set in os.environ
  workers           \* rag: the threads calling retrieve_similar_cases

engine_vars == <<parsed, draft_decision, evidence, epc, call, review>>
extract_vars == <<input_text, signals>>
request_vars == <<req, pc, complaint, prompt_text, cases, steps, payload>>
store_vars == <<executions, complaint_status>>
pair_vars == <<objects, callers>>
upsert_vars == <<upsert_args, index_ids, records, existing_ids, buffer, cursor,
                 upsert_calls, upc>>
env_vars == <<dotenv_loaded, environ, workers>>

vars == <<engine_vars, extract_vars, request_vars, store_vars, pair_vars,
          upsert_vars, env_vars>>

NotExtracted == [done |-> FALSE, raised |-> FALSE]
NotCalled == [branch |-> "not_called"]
NotGated == [reason |-> "not_gated"]
NoPayload == [status |-> "none"]

\* The extractor is not in use.
ExtractIdle == input_text = None /\ signals = NotExtracted

\* No pair of engine callers is in use.
PairIdle == objects = <<>> /\ callers = <<>>

\* The upsert script is not running.
UpsertIdle ==
  /\ upsert_args = None /\ index_ids = {} /\ records = <<>> /\ existing_ids = {}
  /\ buffer = <<>> /\ cursor = 0 /\ upsert_calls = <<>> /\ upc = "idle"

\* No thread is reading the environment.
EnvIdle == dotenv_loaded = FALSE /\ environ = {} /\ workers = <<>>

\* No execute call is in progress and the store is empty.
ExecuteIdle ==
  /\ req = None /\ pc = "idle" /\ complaint = None /\ prompt_text = None
  /\ cases = None /\ steps = <<>> /\ payload = NoPayload
  /\ executions = <<>> /\ complaint_status = None

\* ------------------------------------------------------------------------
\* The decide-and-gate segment, entered with any parsed complaint, draft and
\* evidence (build_dispatch_decision as its callers may call it, followed by
\* the gate of execute).
\* ------------------------------------------------------------------------

MaxCases == 2

EvidenceAgencies == {"NYPD", "DSNY"}
ScoreValues == {500, 620}

CaseRecords ==
  [ agency : {None} \cup EvidenceAgencies,
    score  : {<<>>} \cup {<<s>> : s \in ScoreValues} ]

CaseLists == UNION {[1..n -> CaseRecords] : n \in 0..MaxCases}

EngineEvidence == {NoEvidence, EmptyEvidence} \cup {summarize_evidence(cs) : cs \in CaseLists}

\* confidence_stub: absent (<<>>), the two values execute uses (0.35, 0.55),
\* the ends of [0, 1], a value off the cent grid, and one above 1.
StubValues == {<<>>, <<0>>, <<350>>, <<550>>, <<557>>, <<1000>>, <<1200>>}

EngineParsed ==
  [ category         : {Missing, None, "unknown", "noise", "safety"},
    location         : {None, " ", "Brooklyn"},
    location_details : {Missing, "5th Ave"},
    time_24h         : {None, "02:00"},
    recurrence       : {None, "every weekend"},
    complaint_text   : EngineTexts ]

EngineDrafts ==
  [ agency_guess    : {"NYPD"},
    urgency_guess   : {"medium", "high"},
    action_guess    : {"Log ticket for review"},
    confidence_stub : StubValues ]

EngineInit ==
  /\ parsed \in EngineParsed
  /\ draft_decision \in EngineDrafts
  /\ evidence \in EngineEvidence
  /\ epc = "ready"
  /\ call = NotCalled
  /\ review = NotGated
  /\ ExtractIdle
  /\ ExecuteIdle
  /\ PairIdle
  /\ UpsertIdle
  /\ EnvIdle

\* The Decide_DispatchDecision step: its prompt holds the draft dictionary
\* itself, as the engine left it.
decide_step(result, summary) ==
  [ module   |-> "Decide_DispatchDecision",
    prompt   |-> [ parsed         |-> parsed,
                   draft_decision |-> result.draft,
                   evidence       |-> summary ],
    response |-> result.decision ]

\* decision = build_dispatch_decision(parsed, draft_decision, evidence) and
\* the step that records it.
Decide ==
  /\ epc = "ready"
  /\ call' = build_dispatch_decision(parsed, draft_decision, evidence)
  /\ draft_decision' = call'.draft
  /\ steps' = Append(steps, decide_step(call', evidence))
  /\ epc' = "decided"
  /\ UNCHANGED <<parsed, evidence, review, req, pc, complaint, prompt_text,
                 cases, payload, extract_vars, store_vars, pair_vars,
                 upsert_vars, env_vars>>

\* Confidence gating and human-review escalation.
Gate ==
  /\ epc = "decided"
  /\ review' = review_gate(call.decision, parsed)
  /\ epc' = "gated"
  /\ UNCHANGED <<parsed, draft_decision, evidence, call,
                 extract_vars, request_vars, store_vars, pair_vars,
                 upsert_vars, env_vars>>

EngineNext == Decide \/ Gate

SpecEngine == EngineInit /\ [][EngineNext]_vars

\* ------------------------------------------------------------------------
\* Properties of the confidence engine and the gate (SpecEngine)
\* ------------------------------------------------------------------------

Decided == epc \in {"decided", "gated"}

\* The draft as it was passed to build_dispatch_decision.
DraftIn == IF epc = "ready" THEN draft_decision ELSE call.draft_in

\* C1: whenever neither location nor location_details holds a non-blank
\* value, the confidence of the returned Decision is at most 0.40, whatever
\* evidence is supplied.
C1_NoLocationFinalCap ==
  (Decided /\ ~has_any_location(parsed)) => call.decision.confidence <= NoLocationCap

\* C2: whenever the complaint text contains one of the engine's hedging
\* phrases, the confidence of the returned Decision is at most 0.35, for every
\* evidence summary and every draft.
C2_VagueFinalCap ==
  (Decided /\ is_vague(parsed))
    => call.decision.confidence <= VagueCap

\* A vague safety complaint of high urgency with strong evidence, decided.
C2_Witness ==
  /\ epc = "decided"
  /\ is_vague(parsed)
  /\ parsed.category = "safety"
  /\ draft_decision.urgency_guess = "high"
  /\ evidence.kind = "dict"
  /\ strong_evidence(evidence)
  /\ call.penalized >= SafetyHighFloor
  /\ call.decision.confidence = 300

StubInRange(draft) ==
  draft.confidence_stub = <<>>
    \/ (draft.confidence_stub[1] >= 0 /\ draft.confidence_stub[1] <= 1000)

\* C3: for every draft whose confidence_stub is in [0, 1], the confidence
\* after penalties and caps (before evidence fusion) is in [0.05, 1.0] and the
\* confidence of the returned Decision is in [0.0, 1.0].
C3_ConfidenceRange ==
  (Decided /\ StubInRange(draft_decision)) =>
    /\ call.capped >= MinConfidence /\ call.capped <= 1000
    /\ call.decision.confidence >= 0 /\ call.decision.confidence <= 1000

\* A stub of 0 whose penalties would take it below zero: the floor holds it
\* at 0.05.
C3_Witness ==
  /\ epc = "decided"
  /\ draft_decision.confidence_stub = <<0>>
  /\ category_unknown(parsed)
  /\ ~has_any_location(parsed)
  /\ call.capped = MinConfidence

SafetyHigh == Get(parsed.category) = "safety" /\ draft_decision.urgency_guess = "high"

\* C4 as claimed: for category safety and urgency high, the confidence that
\* enters the cap step (after all penalties) is at least 0.85.
C4_FloorEntersCapStep ==
  (Decided /\ SafetyHigh) => call.penalized >= SafetyHighFloor

\* C4 as amended: for category safety and urgency high the floor of 0.85 is
\* applied before the location and time penalties, so the confidence entering
\* the cap step is at least 0.85 less 0.10 when no location is present and
\* less 0.05 when no time is present: never below 0.70, and at least 0.85
\* when both are present.
C4_FloorBeforePenalties ==
  (Decided /\ SafetyHigh) =>
    /\ call.penalized >=
         SafetyHighFloor
           - (IF has_any_location(parsed) THEN 0 ELSE LocationPenalty)
           - (IF Truthy(Get(parsed.time_24h)) THEN 0 ELSE TimePenalty)
    /\ call.penalized >= 700

\* A safety complaint of high urgency with neither location nor time enters
\* the cap step at 0.70.
C4_Witness ==
  /\ epc = "decided"
  /\ SafetyHigh
  /\ ~has_any_location(parsed)
  /\ ~Truthy(Get(parsed.time_24h))
  /\ call.penalized = 700

\* The complaint of C5 with the evidence of C5: every case agrees with the
\* draft's agency (vote ratio 1.0) and the top score is 0.62.
C5_Scenario ==
  /\ parsed.complaint_text = C5Text
  /\ parsed.category = "noise"
  /\ parsed.time_24h = "02:00"
  /\ parsed.location = "Brooklyn"
  /\ DraftIn.confidence_stub = <<550>>
  /\ evidence.kind = "dict"
  /\ top_agency_of(evidence.agency_counts) = DraftIn.agency_guess
  /\ evidence.total_matches > 0
  /\ top_count_of(evidence.agency_counts) = evidence.total_matches
  /\ evidence.top_score = <<620>>

LocationAbsent(p) == Get(p.location) \in {None, ""}

\* C6: needs_review is true exactly when the Decision confidence is below
\* 0.6, or the category is unknown or absent, or no location is present; and
\* critical_missing lists "category" and "location" for exactly those two
\* conditions.
C6_ReviewGate ==
  epc = "gated" =>
    /\ review.needs_human_review <=>
         \/ call.decision.confidence < 600
         \/ Get(parsed.category) \in {None, "unknown"}
         \/ LocationAbsent(parsed)
    /\ review.passes = ~review.needs_human_review
    /\ ("category" \in {review.critical_missing[i] :
                          i \in 1..Len(review.critical_missing)})
         <=> Get(parsed.category) \in {None, "unknown"}
    /\ ("location" \in {review.critical_missing[i] :
                          i \in 1..Len(review.critical_missing)})
         <=> LocationAbsent(parsed)
    /\ \A i \in 1..Len(review.critical_missing) :
         review.critical_missing[i] \in {"category", "location"}

\* A known category with a location and a confidence of exactly 0.60 is not
\* sent to review.
C6_Witness ==
  /\ epc = "gated"
  /\ call.decision.confidence = 600
  /\ Get(parsed.category) \notin {None, "unknown"}
  /\ ~LocationAbsent(parsed)
  /\ ~review.needs_human_review
  /\ review.critical_missing = <<>>

WordChars == "abcdefghijklmnopqrstuvwxyzABCDEFGHIJKLMNOPQRSTUVWXYZ0123456789_"

\* The character of t at position i; "" outside the string.
Ch(t, i) == IF i >= 1 /\ i <= Len(t) THEN SubSeq(t, i, i) ELSE ""

\* \w
IsWordChar(c) == c # "" /\ Contains(WordChars, c)

\* \b between positions p - 1 and p of t.
WordBoundary(t, p) == IsWordChar(Ch(t, p - 1)) # IsWordChar(Ch(t, p))

\* re.search(rf"\b{re.escape(kw)}\b", t) is not None
contains_kw(t, kw) ==
  \E i \in 1..(Len(t) - Len(kw) + 1) :
    /\ SubSeq(t, i, i + Len(kw) - 1) = kw
    /\ WordBoundary(t, i)
    /\ WordBoundary(t, i + Len(kw))

environmental_keywords ==
  { "gas smell", "strong gas smell", "gas leak", "natural gas", "rotten egg",
    "chemical smell", "chemical odor", "fumes", "vapors",
    "carbon monoxide", "co alarm",
    "smoke", "fire", "explosion",
    "sparking", "live wire", "downed wire" }

vague_only ==
  { "feels off", "something weird", "not sure who handles", "not sure",
    "vibe", "weird", "strange", "odd", "maybe", "might be", "i think",
    "kinda", "sort of" }

public_safety_keywords ==
  { "suspicious", "loitering", "staring",
    "following", "harassing",
    "fight", "assault", "robbery",
    "breaking in", "break in",
    "weapon", "gun", "knife",
    "shots fired", "shooting", "gunfire", "stabbing", "stabbed" }

\* property_in_progress of classify_category, t the lowered text.
property_in_progress(t) ==
  \/ /\ Contains(t, "door")
     /\ has_any(t, {"handle", "knob"})
     /\ has_any(t, {"try", "trying", "check", "checking", "jiggle", "pull"})
  \/ /\ Contains(t, "car")
     /\ has_any(t, {"break", "breaking", "tamper", "tampering", "smash"})
  \/ /\ Contains(t, "parked car")
     /\ has_any(t, {"look", "looking", "peering", "checking"})
  \/ Contains(t, "trying door handles")

\* CATEGORY_KEYWORDS, in the order of the dictionary.
CATEGORY_KEYWORDS ==
  << [cat |-> "noise",
      kws |-> {"loud", "noise", "party", "music", "shouting"}],
     [cat |-> "sanitation",
      kws |-> {"trash", "garbage", "rats", "dumping", "litter"}],
     [cat |-> "parking",
      kws |-> {"blocked", "parking", "car", "vehicle", "double parked", "tow"}],
     [cat |-> "street",
      kws |-> {"pothole", "streetlight", "traffic light", "sidewalk", "road"}],
     [cat |-> "water",
      kws |-> {"leak", "water", "sewer", "flood", "hydrant"}],
     [cat |-> "safety",
      kws |-> {"gun", "violence", "assault", "threat", "fight",
               "gas smell", "gas leak", "chemical smell", "chemical odor",
               "fumes", "vapors", "carbon monoxide", "co alarm"}] >>

\* scores[cat] = sum(1 for kw in kws if contains_kw(t, kw)), as the sequence
\* of the scores in dictionary order.
keyword_scores(t) ==
  [i \in 1..Len(CATEGORY_KEYWORDS) |->
     Cardinality({kw \in CATEGORY_KEYWORDS[i].kws : contains_kw(t, kw)})]

best_category_last_tie(scores) ==
  LET best == CHOOSE i \in 1..Len(scores) :
                /\ \A j \in 1..Len(scores) : scores[j] <= scores[i]
                /\ \A j \in (i + 1)..Len(scores) : scores[j] < scores[i]
  IN  IF scores[best] > 0 THEN CATEGORY_KEYWORDS[best].cat ELSE "unknown"

\* best = max(scores, key=scores.get); best if scores[best] > 0 else "unknown"
best_category(scores) ==
  LET best == CHOOSE i \in 1..Len(scores) :
                /\ \A j \in 1..Len(scores) : scores[j] <= scores[i]
                /\ \A j \in 1..(i - 1) : scores[j] < scores[i]
  IN  IF scores[best] > 0 THEN CATEGORY_KEYWORDS[best].cat ELSE "unknown"

vague_rule_unless_crime(t) ==
  /\ has_any(t, vague_only)
  /\ ~has_any(t, environmental_keywords)
  /\ ~has_any(t, public_safety_keywords)

\* The vague rule: vague-only language and no explicit hazard.
vague_rule(t) == has_any(t, vague_only) /\ ~has_any(t, environmental_keywords)

safety_rule_hazard_only(t) == has_any(t, environmental_keywords)

\* The safety override: explicit hazard, public-safety signal or property
\* crime in progress.
safety_rule(t) ==
  \/ has_any(t, environmental_keywords)
  \/ has_any(t, public_safety_keywords)
  \/ property_in_progress(t)

\* classify_category(text), text a string or None.
classify_category(text) ==
  LET t == Lower(OrEmpty(text))
  IN  IF vague_rule(t) THEN "unknown"
      ELSE IF safety_rule(t) THEN "safety"
      ELSE best_category(keyword_scores(t))

\* ------------------------------------------------------------------------
\* Signal extractor: extract_time, extract_location, extract_recurrence
\* (core/preprocessing.py).  The regular expressions are matched as the re
\* module matches them: leftmost start, greedy, alternatives in order.
\* ------------------------------------------------------------------------

\* \d, \s, [A-Z], [a-zA-Z]
IsDigit(c) == c # "" /\ Contains(DigitChars, c)
IsSpace(c) == c \in Whitespace
IsUpper(c) == c # "" /\ Contains(UpperChars, c)
IsLetter(c) == c # "" /\ (Contains(UpperChars, c) \/ Contains(LowerChars, c))

\* The value of the decimal digit c.
DigitValue(c) == (CHOOSE i \in 1..Len(DigitChars) : SubSeq(DigitChars, i, i) = c) - 1

RECURSIVE ToIntFrom(_, _, _)
ToIntFrom(s, i, acc) ==
  IF i > Len(s) THEN acc ELSE ToIntFrom(s, i + 1, acc * 10 + DigitValue(Ch(s, i)))

\* int(s) of a string of decimal digits.
ToInt(s) == ToIntFrom(s, 1, 0)

\* f"{n:02d}"
Pad2(n) == IF n < 10 THEN "0" \o IntStr(n) ELSE IntStr(n)

\* The first position at or after j that holds no whitespace (greedy \s*).
RECURSIVE SkipSpaces(_, _)
SkipSpaces(t, j) == IF IsSpace(Ch(t, j)) THEN SkipSpaces(t, j + 1) ELSE j

\* \b(\d{1,2})(?::(\d{2}))?\s*(am|pm)\b  matched at position i with n hour
\* digits and with or without the minutes group.
Time12Matches(t, i, n, with_minutes) ==
  LET k == SkipSpaces(t, i + n + (IF with_minutes THEN 3 ELSE 0))
  IN  /\ WordBoundary(t, i)
      /\ \A d \in 0..(n - 1) : IsDigit(Ch(t, i + d))
      /\ with_minutes => /\ Ch(t, i + n) = ":"
                         /\ IsDigit(Ch(t, i + n + 1))
                         /\ IsDigit(Ch(t, i + n + 2))
      /\ k + 1 <= Len(t)
      /\ Lower(SubSeq(t, k, k + 1)) \in {"am", "pm"}
      /\ WordBoundary(t, k + 2)

\* The attempts at one position, in the order the matcher tries them.
Time12Attempts == << <<2, TRUE>>, <<2, FALSE>>, <<1, TRUE>>, <<1, FALSE>> >>

Time12MatchesAt(t, i) ==
  \E a \in 1..Len(Time12Attempts) :
    Time12Matches(t, i, Time12Attempts[a][1], Time12Attempts[a][2])

\* The hour/minute arithmetic and formatting of the 12-hour branch.
Time12Value(t, i) ==
  LET a == CHOOSE b \in 1..Len(Time12Attempts) :
             /\ Time12Matches(t, i, Time12Attempts[b][1], Time12Attempts[b][2])
             /\ \A c \in 1..(b - 1) :
                  ~Time12Matches(t, i, Time12Attempts[c][1], Time12Attempts[c][2])
      n == Time12Attempts[a][1]
      with_minutes == Time12Attempts[a][2]
      k == SkipSpaces(t, i + n + (IF with_minutes THEN 3 ELSE 0))
      hour == ToInt(SubSeq(t, i, i + n - 1))
      minute == IF with_minutes THEN ToInt(SubSeq(t, i + n + 1, i + n + 2)) ELSE 0
      ampm == Lower(SubSeq(t, k, k + 1))
      hour24 == IF ampm = "pm" /\ hour # 12 THEN hour + 12
                ELSE IF ampm = "am" /\ hour = 12 THEN 0
                ELSE hour
  IN  Pad2(hour24) \o ":" \o Pad2(minute)

\* :([0-5]\d)\b  at position j.
Time24Minutes(t, j) ==
  /\ Ch(t, j) = ":"
  /\ Ch(t, j + 1) # "" /\ Contains("012345", Ch(t, j + 1))
  /\ IsDigit(Ch(t, j + 2))
  /\ WordBoundary(t, j + 3)

\* \b([01]?\d|2[0-3]):([0-5]\d)\b  at position i: the number of hour digits
\* of the match, 0 when there is none.
Time24HourDigits(t, i) ==
  IF ~WordBoundary(t, i) THEN 0
  ELSE IF /\ Ch(t, i) # "" /\ Contains("01", Ch(t, i))
          /\ IsDigit(Ch(t, i + 1))
          /\ Time24Minutes(t, i + 2) THEN 2
  ELSE IF IsDigit(Ch(t, i)) /\ Time24Minutes(t, i + 1) THEN 1
  ELSE IF /\ Ch(t, i) = "2"
          /\ Ch(t, i + 1) # "" /\ Contains("0123", Ch(t, i + 1))
          /\ Time24Minutes(t, i + 2) THEN 2
  ELSE 0

Time24Value(t, i) ==
  LET n == Time24HourDigits(t, i)
  IN  Pad2(ToInt(SubSeq(t, i, i + n - 1))) \o ":"
        \o Pad2(ToInt(SubSeq(t, i + n + 1, i + n + 2)))

\* The leftmost position at which the 12-hour pattern matches.
Time12Start(t) ==
  CHOOSE i \in 1..Len(t) :
    Time12MatchesAt(t, i) /\ \A j \in 1..(i - 1) : ~Time12MatchesAt(t, j)

\* The leftmost position at which the 24-hour pattern matches.
Time24Start(t) ==
  CHOOSE i \in 1..Len(t) :
    Time24HourDigits(t, i) > 0 /\ \A j \in 1..(i - 1) : Time24HourDigits(t, j) = 0

\* extract_time(text) for a string text.
extract_time(text) ==
  IF \E i \in 1..Len(text) : Time12MatchesAt(text, i)
    THEN Time12Value(text, Time12Start(text))
  ELSE IF \E i \in 1..Len(text) : Time24HourDigits(text, i) > 0
    THEN Time24Value(text, Time24Start(text))
  ELSE None

boroughs == << "brooklyn", "manhattan", "queens", "bronx", "staten island" >>

\* b.title() of the five borough names.
borough_titles ==
  << "Brooklyn", "Manhattan", "Queens", "Bronx", "Staten Island" >>

\* The last position of the run of letters that starts at k.
RECURSIVE LetterRunEnd(_, _)
LetterRunEnd(t, k) ==
  IF IsLetter(Ch(t, k + 1)) THEN LetterRunEnd(t, k + 1) ELSE k

\* [A-Z][a-zA-Z]+(?:\s+[A-Z][a-zA-Z]+)*\b  at position k: the last position
\* of the (greedy) match, 0 when there is none.
RECURSIVE PlaceEnd(_, _)
PlaceEnd(t, k) ==
  IF ~(IsUpper(Ch(t, k)) /\ IsLetter(Ch(t, k + 1))) THEN 0
  ELSE LET e == LetterRunEnd(t, k)
           k2 == SkipSpaces(t, e + 1)
           longer == IF k2 > e + 1 THEN PlaceEnd(t, k2) ELSE 0
       IN  IF longer > 0 THEN longer
           ELSE IF WordBoundary(t, e + 1) THEN e
           ELSE 0

\* \bin\s+(...)  at position i.
InPlaceMatchesAt(t, i) ==
  /\ WordBoundary(t, i)
  /\ Ch(t, i) = "i" /\ Ch(t, i + 1) = "n"
  /\ SkipSpaces(t, i + 2) > i + 2
  /\ PlaceEnd(t, SkipSpaces(t, i + 2)) > 0

\* extract_location(text) for a string text.
extract_location(text) ==
  IF \E b \in 1..Len(boroughs) : contains_kw(Lower(text), boroughs[b])
    THEN borough_titles[CHOOSE b \in 1..Len(boroughs) :
                          /\ contains_kw(Lower(text), boroughs[b])
                          /\ \A c \in 1..(b - 1) :
                               ~contains_kw(Lower(text), boroughs[c])]
  ELSE IF \E i \in 1..Len(text) : InPlaceMatchesAt(text, i)
    THEN LET i == CHOOSE j \in 1..Len(text) :
                    /\ InPlaceMatchesAt(text, j)
                    /\ \A h \in 1..(j - 1) : ~InPlaceMatchesAt(text, h)
             k == SkipSpaces(text, i + 2)
         IN  SubSeq(text, k, PlaceEnd(text, k))
  ELSE None

\* The recurrence patterns, each as the phrase the function returns for it.
recurrence_patterns ==
  << "every day", "daily", "every weekend", "every week", "every night",
     "again", "recurring" >>

\* extract_recurrence(text) for a string text.
extract_recurrence(text) ==
  IF \E p \in 1..Len(recurrence_patterns) :
       contains_kw(Lower(text), recurrence_patterns[p])
    THEN recurrence_patterns[CHOOSE p \in 1..Len(recurrence_patterns) :
           /\ contains_kw(Lower(text), recurrence_patterns[p])
           /\ \A q \in 1..(p - 1) :
                ~contains_kw(Lower(text), recurrence_patterns[q])]
  ELSE None

\* ------------------------------------------------------------------------
\* Urgency scorer: estimate_urgency (core/preprocessing.py)
\* ------------------------------------------------------------------------

\* Printable ASCII characters in code-point order (the double quote, the
\* backslash and the backquote are left out).
AsciiChars ==
  " !#$%&'()*+,-./0123456789:;<=>?@ABCDEFGHIJKLMNOPQRSTUVWXYZ[]^_abcdefghijklmnopqrstuvwxyz{|}~"

\* The rank of the character c in code-point order.
CharCode(c) == CHOOSE i \in 1..Len(AsciiChars) : SubSeq(AsciiChars, i, i) = c

\* a <= b for Python strings: lexicographic by code point.
RECURSIVE StrLeqFrom(_, _, _)
StrLeqFrom(a, b, i) ==
  IF i > Len(a) THEN TRUE
  ELSE IF i > Len(b) THEN FALSE
  ELSE IF Ch(a, i) = Ch(b, i) THEN StrLeqFrom(a, b, i + 1)
  ELSE CharCode(Ch(a, i)) < CharCode(Ch(b, i))

StrLeq(a, b) == StrLeqFrom(a, b, 1)

RECURSIVE StripLeft(_)
StripLeft(s) ==
  IF Len(s) > 0 /\ IsSpace(Ch(s, 1)) THEN StripLeft(SubSeq(s, 2, Len(s))) ELSE s

RECURSIVE StripRight(_)
StripRight(s) ==
  IF Len(s) > 0 /\ IsSpace(Ch(s, Len(s)))
    THEN StripRight(SubSeq(s, 1, Len(s) - 1))
    ELSE s

\* str.strip()
Strip(s) == StripRight(StripLeft(s))

high_signals ==
  { "gas leak", "strong gas smell", "natural gas", "rotten egg",
    "carbon monoxide", "co alarm",
    "smoke", "fire", "explosion",
    "sparking", "live wire", "downed wire",
    "shooting", "shots fired", "gunfire",
    "stabbed", "stabbing",
    "unconscious", "not breathing", "can't breathe",
    "chest pain", "fainting" }

medium_signals ==
  { "chemical odor", "fumes", "vapors",
    "burning smell", "strong odor",
    "coughing", "dizzy", "vomiting", "headache",
    "weapon", "gun", "knife",
    "fight", "assault", "robbery",
    "blocking traffic", "swerving", "cars avoiding",
    "near crosswalk" }

nuisance_signals ==
  { "every", "recurring", "again", "each weekend", "every weekend" }

urgency_vague_signals ==
  { "something weird", "feels off", "strange", "not sure",
    "maybe", "might be", "kinda", "sort of" }

\* property_crime of estimate_urgency, t the lowered text.
property_crime(t) ==
  \/ /\ Contains(t, "door")
     /\ has_any(t, {"handle", "knob"})
     /\ has_any(t, {"try", "trying", "check", "checking", "jiggle", "pull"})
  \/ /\ Contains(t, "parked car")
     /\ has_any(t, {"look", "looking", "peering", "checking"})

NightFrom == "22:00"
NightUntil == "05:00"

\* is_night of estimate_urgency; the times are compared as strings.
is_night(t, time_24h) ==
  \/ Contains(t, "night")
  \/ /\ Truthy(time_24h)
     /\ (StrLeq(NightFrom, time_24h) \/ StrLeq(time_24h, NightUntil))

PropertyCrimeSeverity == 2
HighSeverity == 3
MediumSeverity == 2
NightSeverity == 1
NuisanceSeverity == 1

\* The severity estimate_urgency accumulates.
severity_of(t, category, time_24h) ==
    (IF property_crime(t) THEN PropertyCrimeSeverity ELSE 0)
  + (IF has_any(t, high_signals) THEN HighSeverity ELSE 0)
  + (IF has_any(t, medium_signals) THEN MediumSeverity ELSE 0)
  + (IF category = "noise" /\ is_night(t, time_24h) THEN NightSeverity ELSE 0)
  + (IF has_any(t, nuisance_signals) THEN NuisanceSeverity ELSE 0)

HighThreshold == 3
MediumThreshold == 2

\* estimate_urgency(text, category, time_24h)
estimate_urgency(text, category, time_24h) ==
  LET t == Strip(Lower(OrEmpty(text)))
      severity == severity_of(t, category, time_24h)
  IN  IF has_any(t, urgency_vague_signals) /\ severity = 0 THEN "low"
      ELSE IF severity >= HighThreshold THEN "high"
      ELSE IF severity >= MediumThreshold THEN "medium"
      ELSE "low"

\* ------------------------------------------------------------------------
\* The signal extractor and urgency scorer, applied to complaint texts made
\* of up to MaxWords fragments.
\* ------------------------------------------------------------------------

MaxWords == 2

Vocabulary ==
  { "Not sure", "kinda odd",
    "gas leak", "smoke", "shots fired",
    "suspicious man", "a gun",
    "checking a door knob", "tampering with a car",
    "loud party", "trash", "parking", "loudly dumping",
    "at 2am", "in Brooklyn", "every weekend", "not breathing" }

ExtractTexts ==
  UNION { {Join(ws, " ") : ws \in [1..n -> Vocabulary]} : n \in 0..MaxWords }

\* re.search(pattern, text) takes a string; for None it raises TypeError.
search_accepts(text) == text # None

\* The call ended in an exception.
RaisedTypeError == [done |-> FALSE, raised |-> TRUE]

ExtractInit ==
  /\ input_text \in ExtractTexts \cup {None}
  /\ signals = NotExtracted
  /\ parsed = None /\ draft_decision = None /\ evidence = None
  /\ epc = "idle" /\ call = NotCalled /\ review = NotGated
  /\ ExecuteIdle
  /\ PairIdle
  /\ UpsertIdle
  /\ EnvIdle

\* The preprocessing calls of execute: category, time, location, recurrence,
\* then the urgency from the text, the category and the extracted time.
ExtractSignals ==
  /\ signals = NotExtracted
  /\ LET category == classify_category(input_text)
         time_24h == extract_time(input_text)
     IN  signals' =
           IF ~search_accepts(input_text) THEN RaisedTypeError
           ELSE [ done       |-> TRUE,
                  raised     |-> FALSE,
                  category   |-> category,
                  time_24h   |-> time_24h,
                  location   |-> extract_location(input_text),
                  recurrence |-> extract_recurrence(input_text),
                  urgency    |-> estimate_urgency(input_text, category, time_24h) ]
  /\ UNCHANGED <<input_text, engine_vars, request_vars, store_vars, pair_vars,
                 upsert_vars, env_vars>>

ExtractNext == ExtractSignals

SpecExtract == ExtractInit /\ [][ExtractNext]_vars

\* ------------------------------------------------------------------------
\* Properties of the classifier (SpecExtract)
\* ------------------------------------------------------------------------

HasVagueOnly == has_any(Lower(input_text), vague_only)
HasHazard == has_any(Lower(input_text), environmental_keywords)
HasPublicSafety == has_any(Lower(input_text), public_safety_keywords)
HasPropertyCrime == property_in_progress(Lower(input_text))
KeywordCategory == best_category(keyword_scores(Lower(input_text)))

\* C9: a text with at least one vague-only phrase and no explicit-hazard
\* phrase is classified "unknown", also when it holds public-safety phrases,
\* matches the property-crime heuristic or has category keyword hits.
C9_VagueWithoutHazardIsUnknown ==
  (signals.done /\ HasVagueOnly /\ ~HasHazard) => signals.category = "unknown"

\* A vague text without hazard that the later rules would have classified:
\* a public-safety phrase or the property heuristic, and keyword hits.
C9_Witness ==
  /\ signals.done /\ HasVagueOnly /\ ~HasHazard
  /\ (HasPublicSafety \/ HasPropertyCrime)
  /\ KeywordCategory # "unknown"
  /\ signals.category = "unknown"

\* C10: a text with an explicit-hazard phrase is classified "safety" whatever
\* vague phrases or keyword hits it has; a text without vague-only phrase
\* that holds a public-safety phrase or matches the property-crime heuristic
\* is classified "safety" whatever the keyword counts are.
C10_HazardAndCrimeAreSafety ==
  signals.done =>
    /\ HasHazard => signals.category = "safety"
    /\ (~HasVagueOnly /\ (HasPublicSafety \/ HasPropertyCrime))
         => signals.category = "safety"

\* A crime text without vague phrase whose keyword counts point to another
\* category.
C10_Witness ==
  /\ signals.done /\ ~HasVagueOnly /\ ~HasHazard
  /\ (HasPublicSafety \/ HasPropertyCrime)
  /\ KeywordCategory \notin {"unknown", "safety"}
  /\ signals.category = "safety"

\* A hazard text with a vague phrase whose keyword counts point to another
\* category.
C10_WitnessHazard ==
  /\ signals.done /\ HasVagueOnly /\ HasHazard
  /\ KeywordCategory \notin {"unknown", "safety"}
  /\ signals.category = "safety"

\* The fixed order of the categories.
CategoryOrder == <<"noise", "sanitation", "parking", "street", "water", "safety">>

\* The whole-word keyword hits of the text for the i-th category.
Hits(i) ==
  Cardinality({kw \in CATEGORY_KEYWORDS[i].kws : contains_kw(Lower(input_text), kw)})

\* Neither the vague rule nor the safety override applies to the text.
ScoringApplies ==
  /\ ~(HasVagueOnly /\ ~HasHazard)
  /\ ~(HasHazard \/ HasPublicSafety \/ HasPropertyCrime)

\* C11: when neither the vague rule nor the safety override applies, the
\* category is the one with the most whole-word keyword hits, the first of
\* the fixed order among those tied for the most, and "unknown" when no
\* keyword hits.
C11_KeywordScoring ==
  (signals.done /\ ScoringApplies) =>
    IF \A i \in 1..Len(CategoryOrder) : Hits(i) = 0
      THEN signals.category = "unknown"
      ELSE \E i \in 1..Len(CategoryOrder) :
             /\ signals.category = CategoryOrder[i]
             /\ \A j \in 1..Len(CategoryOrder) : Hits(j) <= Hits(i)
             /\ \A j \in 1..(i - 1) : Hits(j) < Hits(i)

\* Two categories tied for the most hits, a substring of a keyword of an
\* earlier category that is no whole word, and the earlier of the tied
\* categories returned.
C11_Witness ==
  /\ signals.done /\ ScoringApplies
  /\ \E i, j \in 1..Len(CategoryOrder) :
       /\ i < j /\ Hits(i) = Hits(j) /\ Hits(i) > 0
       /\ \A k \in 1..Len(CategoryOrder) : Hits(k) <= Hits(i)
       /\ signals.category = CategoryOrder[i]
  /\ Contains(Lower(input_text), "loud") /\ Hits(1) = 0

\* ------------------------------------------------------------------------
\* Properties of the urgency scorer (SpecExtract)
\* ------------------------------------------------------------------------

\* A well-formed HH:MM string within [from, until], both HH:MM.
TimeWithin(time, from, until) ==
  /\ Len(time) = 5 /\ Ch(time, 3) = ":"
  /\ \A i \in {1, 2, 4, 5} : IsDigit(Ch(time, i))
  /\ LET minutes(x) == ToInt(SubSeq(x, 1, 2)) * 60 + ToInt(SubSeq(x, 4, 5))
     IN  minutes(from) <= minutes(time) /\ minutes(time) <= minutes(until)

\* Night for a noise complaint, as a time of day.
NoiseAtNight ==
  /\ signals.category = "noise"
  /\ \/ Contains(Lower(input_text), "night")
     \/ /\ signals.time_24h # None
        /\ \/ TimeWithin(signals.time_24h, "22:00", "23:59")
           \/ TimeWithin(signals.time_24h, "00:00", "05:00")

\* The additive severity with the property-crime heuristic of the
\* classifier.
SeverityWithClassifierHeuristic ==
    (IF has_any(Lower(input_text), high_signals) THEN 3 ELSE 0)
  + (IF has_any(Lower(input_text), medium_signals) THEN 2 ELSE 0)
  + (IF HasPropertyCrime THEN 2 ELSE 0)
  + (IF NoiseAtNight THEN 1 ELSE 0)
  + (IF has_any(Lower(input_text), nuisance_signals) THEN 1 ELSE 0)

\* The same sum with the heuristic estimate_urgency itself evaluates.
SeverityWithScorerHeuristic ==
  SeverityWithClassifierHeuristic
    - (IF HasPropertyCrime THEN 2 ELSE 0)
    + (IF property_crime(Lower(input_text)) THEN 2 ELSE 0)

LevelOf(severity) ==
  IF severity >= 3 THEN "high" ELSE IF severity >= 2 THEN "medium" ELSE "low"

\* C12: the urgency is the level (>= 3 high, >= 2 medium, else low) of the
\* sum of 3 for a high signal, 2 for a medium signal, 2 for the property
\* crime heuristic as the classifier defines it, 1 for a noise complaint at
\* night and 1 for recurring language.
C12_UrgencyIsLevelOfSeverity ==
  signals.done => signals.urgency = LevelOf(SeverityWithClassifierHeuristic)

\* What holds instead: the sum is taken with the scorer's own heuristic,
\* which knows door+handle+trying and parked car+looking but not
\* car+break/tamper.
C12_UrgencyWithScorerHeuristic ==
  signals.done => signals.urgency = LevelOf(SeverityWithScorerHeuristic)

\* A text the classifier's heuristic matches and the scorer's does not.
C12_HeuristicsDiffer ==
  /\ signals.done /\ HasPropertyCrime /\ ~property_crime(Lower(input_text))
  /\ signals.category = "safety" /\ signals.urgency = "low"

\* ------------------------------------------------------------------------
\* The execute pipeline (POST /api/execute, main.py) and the functions it
\* calls besides the ones above
\* ------------------------------------------------------------------------

UpperChar(c) ==
  IF \E i \in 1..Len(LowerChars) : SubSeq(LowerChars, i, i) = c
    THEN LET i == CHOOSE j \in 1..Len(LowerChars) : SubSeq(LowerChars, j, j) = c
         IN  SubSeq(UpperChars, i, i)
    ELSE c

RECURSIVE UpperFrom(_, _)
UpperFrom(s, i) ==
  IF i > Len(s) THEN "" ELSE UpperChar(SubSeq(s, i, i)) \o UpperFrom(s, i + 1)

\* str.upper()
Upper(s) == UpperFrom(s, 1)

\* str(x) of a float x that round(., 2) produced, x in thousandths.
PyFloatStr(x) ==
  LET h == x \div 10
  IN  IntStr(h \div 100) \o "." \o Digit((h \div 10) % 10)
        \o (IF h % 10 = 0 THEN "" ELSE Digit(h % 10))

\* AGENCY_MAP.get(category, AGENCY_MAP["unknown"])
AGENCY_MAP(category) ==
  CASE category = "noise"      -> "Noise Control / Non-emergency Police"
    [] category = "sanitation" -> "Sanitation Department"
    [] category = "parking"    -> "Parking Enforcement"
    [] category = "street"     -> "Public Works / DOT"
    [] category = "water"      -> "Water & Sewer Department"
    [] category = "safety"     -> "Emergency Services / Police"
    [] OTHER                   -> "311 Triage (Unknown)"

\* action_guess of execute.
action_guess_of(category) ==
  CASE category = "noise" ->
         "Create noise complaint ticket; advise caller; dispatch non-emergency check if repeated"
    [] category = "sanitation" ->
         "Create sanitation ticket; schedule cleanup/inspection"
    [] category = "parking" ->
         "Create parking enforcement request; recommend tow/inspection if blocking"
    [] category = "street" ->
         "Create public works ticket; schedule repair/inspection"
    [] category = "water" ->
         "Create water/sewer ticket; dispatch crew if leak/flood risk"
    [] category = "safety" ->
         "Escalate immediately to emergency services"
    [] OTHER -> "Log ticket for review"

UnknownStub == 350
KnownStub == 550

\* build_reasoning(parsed) (core/decision.py)
build_reasoning(p) ==
  [ intent       |-> "Handle a " \o PyStr(GetOr(p.category, "unknown")) \o " complaint",
    constraints  |-> IF Truthy(Get(p.recurrence)) THEN <<"recurring issue">> ELSE <<>>,
    missing_info |->
      (IF ~Truthy(Get(p.location)) THEN <<"exact location/address">> ELSE <<>>)
      \o (IF ~Truthy(Get(p.time_24h)) THEN <<"time of incident">> ELSE <<>>) ]

\* format_user_response(decision) (core/formatting.py)
format_user_response(decision) ==
  "Decision:\n"
    \o "- Agency: " \o PyStr(decision.agency) \o "\n"
    \o "- Urgency: " \o PyStr(decision.urgency) \o "\n"
    \o "- Action: " \o PyStr(decision.action) \o "\n"
    \o "- Justification: " \o decision.justification \o "\n"
    \o "- Confidence: " \o PyFloatStr(decision.confidence) \o "\n"

\* The dictionaries retrieve_similar_cases returns (core/rag.py): matches
\* found, retrieval skipped for want of configuration, retrieval failed.
retrieved_ok(matches) ==
  [ kind |-> "ok", keys |-> <<"ok", "cases">>,
    ok |-> TRUE, skipped |-> Missing, cases |-> matches, error |-> Missing ]

retrieval_skipped ==
  [ kind |-> "skipped", keys |-> <<"ok", "skipped", "cases", "error">>,
    ok |-> FALSE, skipped |-> TRUE, cases |-> <<>>,
    error |-> "Pinecone not configured" ]

retrieval_failed ==
  [ kind |-> "failed", keys |-> <<"ok", "skipped", "cases", "error">>,
    ok |-> FALSE, skipped |-> FALSE, cases |-> <<>>,
    error |-> "index query failed" ]

\* str(e) of the AttributeError that c.get raises for a string c.
StrHasNoGet == "'str' object has no attribute 'get'"

\* summarize_evidence(cases) as execute calls it, cases being the dictionary
\* that retrieve_similar_cases returned: "for c in cases" walks the keys of
\* the dictionary, and c.get("metadata") raises on the first key.
summarize_retrieved(result) ==
  IF Len(result.keys) > 0
    THEN [raised |-> TRUE, error |-> StrHasNoGet]
    ELSE [raised |-> FALSE, evidence |-> summarize_evidence(<<>>)]

error_payload_with_text(message, trace) ==
  [status |-> "error", error |-> message, response |-> message, steps |-> trace]

\* The four top-level fields of every response.
error_payload(message, trace) ==
  [status |-> "error", error |-> message, response |-> None, steps |-> trace]

ok_payload(response_text, trace) ==
  [status |-> "ok", error |-> None, response |-> response_text, steps |-> trace]

\* The except clause around the whole of execute.
unexpected_error(message) ==
  error_payload("Unexpected server error: " \o message, <<>>)

NoComplaint == [found |-> FALSE]
NoCases == [kind |-> "none"]

\* The complaints table: one stored complaint, as create_complaint stores
\* it (stripped, non-empty text).
StoredComplaints ==
  [ id \in {"c1"} |->
      [ found          |-> TRUE,
        complaint_text |-> "trash again on the corner",
        borough        |-> "Queens",
        incident_time  |-> "23:15",
        status         |-> "new" ] ]

Prompts ==
  { None, "  ",
    " Gas leak in the hallway ",
    C5Text,
    "Not sure, feels off",
    "loud music at 13pm" }

ComplaintIds == {None, "c1", "c404"}

Requests == [prompt : Prompts, complaint_id : ComplaintIds]

\* What fetch_complaint does for an id: the row, None, or an exception when
\* the store cannot be reached.
FetchOutcomes(id) ==
  { [outcome |-> "raised", row |-> NoComplaint],
    IF id \in DOMAIN StoredComplaints
      THEN [outcome |-> "row", row |-> StoredComplaints[id]]
      ELSE [outcome |-> "none", row |-> NoComplaint] }

Init ==
  /\ req \in Requests
  /\ pc = "start"
  /\ complaint = NoComplaint
  /\ prompt_text = None
  /\ cases = NoCases
  /\ steps = <<>>
  /\ payload = NoPayload
  /\ executions = <<>>
  /\ complaint_status = StoredComplaints["c1"].status
  /\ parsed = None /\ draft_decision = None /\ evidence = None
  /\ epc = "idle" /\ call = NotCalled /\ review = NotGated
  /\ ExtractIdle
  /\ PairIdle
  /\ UpsertIdle
  /\ EnvIdle

\* The response is returned.
Return(response) ==
  /\ payload' = response
  /\ pc' = "done"

\* Choice of the text: the stored complaint of complaint_id, else the
\* stripped prompt, else an error response.
Route ==
  /\ pc = "start"
  /\ IF Truthy(req.complaint_id)
       THEN \E fetched \in FetchOutcomes(req.complaint_id) :
              CASE fetched.outcome = "raised" ->
                     /\ Return(unexpected_error("store unreachable"))
                     /\ UNCHANGED <<complaint, prompt_text>>
                [] fetched.outcome = "none" ->
                     /\ Return(error_payload(
                          "Complaint not found for provided complaint_id.", <<>>))
                     /\ UNCHANGED <<complaint, prompt_text>>
                [] fetched.outcome = "row" ->
                     /\ complaint' = fetched.row
                     /\ prompt_text' = fetched.row.complaint_text
                     /\ pc' = "routed"
                     /\ UNCHANGED payload
       ELSE IF Truthy(req.prompt) /\ Strip(req.prompt) # ""
         THEN /\ prompt_text' = Strip(req.prompt)
              /\ pc' = "routed"
              /\ UNCHANGED <<complaint, payload>>
         ELSE /\ Return(error_payload(
                   "Provide either complaint_id or a non-empty prompt.", <<>>))
              /\ UNCHANGED <<complaint, prompt_text>>
  /\ UNCHANGED <<req, cases, steps, engine_vars, extract_vars, store_vars,
                 pair_vars,
                 upsert_vars, env_vars>>

\* borough of execute: the extracted location when it is a borough, then the
\* stored complaint's borough.
borough_of(location, stored) ==
  IF stored.found /\ Truthy(stored.borough) THEN Upper(stored.borough)
  ELSE IF Truthy(location)
          /\ \E b \in 1..Len(boroughs) : Lower(location) = boroughs[b]
    THEN Upper(location)
  ELSE None

\* time_24h of the parsed complaint: the extracted time, else the stored
\* complaint's incident_time.
time_of(time_24h, stored) ==
  IF stored.found /\ Truthy(stored.incident_time) /\ ~Truthy(time_24h)
    THEN stored.incident_time
    ELSE time_24h

\* Preprocessing, the parsed complaint, the draft decision and the first two
\* steps of the trace.
Preprocess ==
  /\ pc = "routed"
  /\ LET category   == classify_category(prompt_text)
         time_24h   == extract_time(prompt_text)
         location   == extract_location(prompt_text)
         recurrence == extract_recurrence(prompt_text)
         urgency    == estimate_urgency(prompt_text, category, time_24h)
         p == [ category         |-> category,
                location         |-> location,
                borough          |-> borough_of(location, complaint),
                time_24h         |-> time_of(time_24h, complaint),
                recurrence       |-> recurrence,
                complaint_text   |-> prompt_text,
                location_details |-> Missing ]
         d == [ agency_guess    |-> AGENCY_MAP(category),
                urgency_guess   |-> urgency,
                action_guess    |-> action_guess_of(category),
                confidence_stub |-> IF category = "unknown"
                                      THEN <<UnknownStub>> ELSE <<KnownStub>> ]
     IN  /\ parsed' = p
         /\ draft_decision' = d
         /\ steps' = << [ module   |-> "Preprocessing_ContextExtraction",
                          prompt   |-> [input_prompt |-> prompt_text],
                          response |-> [extracted |-> p] ],
                        [ module   |-> "Reason_UnderstandComplaint",
                          prompt   |-> [parsed |-> p],
                          response |-> build_reasoning(p) ] >>
  /\ pc' = "preprocessed"
  /\ UNCHANGED <<req, complaint, prompt_text, cases, payload, evidence, epc,
                 call, review, extract_vars, store_vars, pair_vars,
                 upsert_vars, env_vars>>

TopK == 3

\* retrieve_similar_cases(parsed, top_k=3) and its step; the call raises
\* only when the .env file cannot be read.
Retrieve ==
  /\ pc = "preprocessed"
  /\ \/ \E result \in {retrieved_ok(cs) : cs \in CaseLists}
                        \cup {retrieval_skipped, retrieval_failed} :
          /\ cases' = result
          /\ steps' = Append(steps,
                        [ module   |-> "Act_RAG_RetrieveSimilarCases",
                          prompt   |-> [parsed |-> parsed, top_k |-> TopK],
                          response |-> [cases |-> result] ])
          /\ pc' = "retrieved"
          /\ UNCHANGED payload
     \/ LET trace == Append(steps,
                       [ module   |-> "Act_RAG_RetrieveSimilarCases",
                         prompt   |-> [parsed |-> parsed, top_k |-> TopK],
                         response |-> [error |-> "cannot read .env"] ])
        IN  /\ steps' = trace
            /\ Return(error_payload("RAG retrieval failed: cannot read .env", trace))
            /\ UNCHANGED cases
  /\ UNCHANGED <<req, complaint, prompt_text, engine_vars, extract_vars, store_vars,
                 pair_vars,
                 upsert_vars, env_vars>>

\* The steps execute appends after build_dispatch_decision returned: the
\* decision (its prompt holds the draft dictionary itself, as the engine
\* left it), the gate, the escalation and the response text.
decided_steps(result, summary, gate, response_text) ==
  << decide_step(result, summary),
     [ module   |-> "Confidence_Gating",
       prompt   |-> [ confidence       |-> gate.confidence,
                      threshold        |-> ReviewThreshold,
                      critical_missing |-> gate.critical_missing ],
       response |-> [passes |-> gate.passes] ],
     [ module   |-> "Human_Review_Escalation",
       prompt   |-> [ confidence       |-> gate.confidence,
                      critical_missing |-> gate.critical_missing ],
       response |-> [ needs_human_review |-> gate.needs_human_review,
                      reason             |-> gate.reason ] ],
     [ module   |-> "Response_Generator",
       prompt   |-> [decision |-> result.decision],
       response |-> [text |-> response_text] ] >>

\* The row execute hands to insert_execution.
execution_row(id, decision, gate, trace, response_text) ==
  [ complaint_id  |-> id,
    final_agency  |-> decision.agency,
    final_urgency |-> decision.urgency,
    final_action  |-> decision.action,
    confidence    |-> decision.confidence,
    escalated     |-> gate.needs_human_review,
    steps         |-> trace,
    response_text |-> response_text ]

\* What the two store writes of execute can come to: both done, the insert
\* raised without a row (the status update is skipped), the insert stored
\* the row and raised for want of an id in the reply (the status update is
\* skipped), the update raised.
StoreOutcomes ==
  {"written", "insert_failed", "insert_unacknowledged", "update_failed"}

\* The executions table after insert_execution.
stored_rows(outcome, rows, row) ==
  IF outcome = "insert_failed" THEN rows ELSE Append(rows, row)

\* Variant of stored_status: the status written whatever the insert did.
stored_status_always(outcome, needs_review, status) ==
  IF outcome = "update_failed" THEN status
  ELSE IF needs_review THEN "needs_human"
  ELSE "processed"

\* The status column after update_complaint_status(complaint_id,
\* "needs_human" if needs_review else "processed"), which runs only when
\* insert_execution returned.
stored_status(outcome, needs_review, status) ==
  IF outcome # "written" THEN status
  ELSE IF needs_review THEN "needs_human"
  ELSE "processed"

\* if complaint_id: try: insert_execution(...); update_complaint_status(...)
\* except Exception: pass
StoreWrites(result, gate, trace, response_text) ==
  IF Truthy(req.complaint_id)
    THEN \E outcome \in StoreOutcomes :
           /\ executions' =
                stored_rows(outcome, executions,
                            execution_row(req.complaint_id, result.decision,
                                          gate, trace, response_text))
           /\ complaint_status' =
                stored_status(outcome, gate.needs_human_review, complaint_status)
    ELSE UNCHANGED store_vars

\* evidence = summarize_evidence(cases) and everything after it: the
\* exception ends the call in the outer except clause; otherwise the decision,
\* the gate, the response text, the store writes and the "ok" response.
Observe ==
  /\ pc = "retrieved"
  /\ LET summary == summarize_retrieved(cases)
     IN  IF summary.raised
           THEN /\ Return(unexpected_error(summary.error))
                /\ UNCHANGED <<steps, engine_vars, store_vars>>
           ELSE LET result == build_dispatch_decision(parsed, draft_decision,
                                                      summary.evidence)
                    gate == review_gate(result.decision, parsed)
                    response_text == format_user_response(result.decision)
                    trace == Append(steps,
                               [ module   |-> "Observe_SummarizeEvidence",
                                 prompt   |-> [cases |-> cases],
                                 response |-> summary.evidence ])
                             \o decided_steps(result, summary.evidence, gate,
                                              response_text)
                IN  /\ evidence' = summary.evidence
                    /\ call' = result
                    /\ draft_decision' = result.draft
                    /\ review' = gate
                    /\ steps' = trace
                    /\ Return(ok_payload(response_text, trace))
                    /\ StoreWrites(result, gate, trace, response_text)
                    /\ UNCHANGED <<parsed, epc>>
  /\ UNCHANGED <<req, complaint, prompt_text, cases, extract_vars, pair_vars,
                 upsert_vars, env_vars>>

Next == Route \/ Preprocess \/ Retrieve \/ Observe

Spec == Init /\ [][Next]_vars

\* ------------------------------------------------------------------------
\* Properties of the execute pipeline (Spec)
\* ------------------------------------------------------------------------

\* The call took the prompt branch with a non-blank prompt.
NonBlankPrompt ==
  ~Truthy(req.complaint_id) /\ Truthy(req.prompt) /\ NonBlank(req.prompt)

\* retrieve_similar_cases returned a result to execute.
RetrievalReturned == cases.kind \in {"ok", "skipped", "failed"}

\* C8: for a non-blank prompt, once retrieve_similar_cases has returned its
\* result (matches, skipped or failed), execute completes the pipeline and
\* responds with status "ok".
C8_RetrievalReturnedGivesOk ==
  (pc = "done" /\ NonBlankPrompt /\ RetrievalReturned) => payload.status = "ok"

\* What the code does instead: every call in which retrieval returned ends
\* in the outer except clause, with an empty trace.
C8_RetrievalReturnedGivesError ==
  (pc = "done" /\ RetrievalReturned)
    => /\ payload.status = "error"
       /\ payload.error = "Unexpected server error: " \o StrHasNoGet
       /\ payload.steps = <<>>

C8_ErrorReached ==
  /\ pc = "done" /\ NonBlankPrompt /\ cases.kind = "skipped"
  /\ payload.status = "error"

\* A zero-padded HH:MM string with HH in 00..23 and MM in 00..59.
IsTimeOfDay(time) ==
  /\ Len(time) = 5 /\ Ch(time, 3) = ":"
  /\ \A i \in {1, 2, 4, 5} : IsDigit(Ch(time, i))
  /\ ToInt(SubSeq(time, 1, 2)) <= 23
  /\ ToInt(SubSeq(time, 4, 5)) <= 59

\* The parsed complaint of the call has been built.
Preprocessed == pc \in {"preprocessed", "retrieved"}

\* C13: the time_24h of the parsed complaint that execute builds, when not
\* absent, is a zero-padded HH:MM string with HH in 00..23 and MM in 00..59,
\* also for 12-hour inputs with an hour above 12 or minutes above 59.
C13_TimeIsTimeOfDay ==
  Preprocessed => (parsed.time_24h = None \/ IsTimeOfDay(parsed.time_24h))

\* The 12-hour branch adds 12 to any pm hour but 12 and never checks the
\* ranges.
C13_HourAbove23 ==
  /\ Preprocessed
  /\ parsed.time_24h = "25:00"
  /\ parsed.time_24h = extract_time(prompt_text)

\* ------------------------------------------------------------------------
\* Two callers of build_dispatch_decision running concurrently (two execute
\* requests at their Decide step, or two calls of the function).  Each
\* call is taken in two steps: everything up to the end of the evidence
\* block, which writes the draft, and the return statement, which reads the
\* draft again.
\* ------------------------------------------------------------------------

Callers == {1, 2}

\* The other caller.
other(r) == 3 - r

draft_of_shared(r) == 1

draft_of_other(r) == 3 - r

\* The identity of the draft dictionary caller r passes: every execute call
\* builds its own dictionary.
draft_of(r) == r

PairParsed ==
  [ category         : {"unknown", "noise"},
    location         : {"Brooklyn"},
    location_details : {Missing},
    time_24h         : {"02:00"},
    recurrence       : {None},
    complaint_text   : {C5Text} ]

PairDrafts ==
  [ agency_guess    : {"NYPD"},
    urgency_guess   : {"medium", "high"},
    action_guess    : {"Log ticket for review"},
    confidence_stub : {<<KnownStub>>} ]

PairEvidence ==
  { NoEvidence,
    summarize_evidence(<<[agency |-> "NYPD", score |-> <<score_threshold>>]>>),
    summarize_evidence(<<[agency |-> "DSNY", score |-> <<score_threshold>>]>>) }

PairInputs == [parsed : PairParsed, draft : PairDrafts, evidence : PairEvidence]

NoDecision == [agency |-> None]

PairInit ==
  /\ \E given \in [Callers -> PairInputs] :
       /\ callers = [r \in Callers |->
                       [ given         |-> given[r],
                         pos           |-> "ready",
                         branch        |-> "not_called",
                         confidence    |-> 0,
                         justification |-> "",
                         decision      |-> NoDecision ]]
       /\ objects = [r \in Callers |-> given[r].draft]
  /\ parsed = None /\ draft_decision = None /\ evidence = None
  /\ epc = "idle" /\ call = NotCalled /\ review = NotGated
  /\ ExtractIdle
  /\ ExecuteIdle
  /\ UpsertIdle
  /\ EnvIdle

\* Caller r runs build_dispatch_decision up to the end of the evidence
\* block: the confidence and the justification are locals, the override
\* writes the draft dictionary.
Fuse(r) ==
  /\ callers[r].pos = "ready"
  /\ LET result == build_dispatch_decision(callers[r].given.parsed,
                                           objects[draft_of(r)],
                                           callers[r].given.evidence)
     IN  /\ objects' = [objects EXCEPT ![draft_of(r)] = result.draft]
         /\ callers' = [callers EXCEPT
                          ![r].pos = "fused",
                          ![r].branch = result.branch,
                          ![r].confidence = result.fused,
                          ![r].justification = result.decision.justification]
  /\ UNCHANGED <<engine_vars, extract_vars, request_vars, store_vars,
                 upsert_vars, env_vars>>

\* Caller r runs the return statement: the agency, urgency and action are
\* read from the draft dictionary.
ReturnDecision(r) ==
  /\ callers[r].pos = "fused"
  /\ callers' = [callers EXCEPT
                   ![r].pos = "returned",
                   ![r].decision =
                      [ agency        |-> objects[draft_of(r)].agency_guess,
                        urgency       |-> objects[draft_of(r)].urgency_guess,
                        action        |-> objects[draft_of(r)].action_guess,
                        justification |-> callers[r].justification,
                        confidence    |-> Round2(callers[r].confidence) ]]
  /\ UNCHANGED <<objects, engine_vars, extract_vars, request_vars, store_vars,
                 upsert_vars, env_vars>>

PairNext == \E r \in Callers : Fuse(r) \/ ReturnDecision(r)

SpecPair == PairInit /\ [][PairNext]_vars

\* ------------------------------------------------------------------------
\* Properties of two concurrent callers (SpecPair)
\* ------------------------------------------------------------------------

BothReturned == \A r \in Callers : callers[r].pos = "returned"

C15_CompletesOnAbsentText ==
  (input_text \in {None, ""} /\ signals # NotExtracted)
    => (signals.done /\ ~signals.raised)

\* The empty text is handled: every extractor returns its "nothing found".
C15_EmptyTextCompletes ==
  /\ input_text = "" /\ signals.done
  /\ signals.category = "unknown" /\ signals.time_24h = None
  /\ signals.location = None /\ signals.recurrence = None
  /\ signals.urgency = "low"

\* The absent text is not: the first regular-expression search raises.
C15_AbsentTextRaises == input_text = None /\ signals.raised

\* What caller r's call produces when it runs alone on its own inputs.
Solo(r) ==
  build_dispatch_decision(callers[r].given.parsed, callers[r].given.draft,
                          callers[r].given.evidence)

ModuleOrder ==
  << "Preprocessing_ContextExtraction", "Reason_UnderstandComplaint",
     "Act_RAG_RetrieveSimilarCases", "Observe_SummarizeEvidence",
     "Decide_DispatchDecision", "Confidence_Gating",
     "Human_Review_Escalation", "Response_Generator" >>

Responded == pc = "done"

\* C17: every response has exactly the fields status, error, response and
\* steps; its steps are a prefix of the module order, each with module,
\* prompt and response; they are the full sequence exactly when the status
\* is "ok"; and the response is null whenever the status is "error".
C17_ResponseShape ==
  Responded =>
    /\ DOMAIN payload = {"status", "error", "response", "steps"}
    /\ payload.status \in {"ok", "error"}
    /\ Len(payload.steps) <= Len(ModuleOrder)
    /\ \A i \in 1..Len(payload.steps) :
         /\ DOMAIN payload.steps[i] = {"module", "prompt", "response"}
         /\ payload.steps[i].module = ModuleOrder[i]
    /\ (Len(payload.steps) = Len(ModuleOrder)) <=> (payload.status = "ok")
    /\ payload.status = "error" => payload.response = None

\* An error response that carries the steps taken so far: retrieval raised
\* after preprocessing and reasoning.
C17_Witness ==
  /\ Responded
  /\ payload.status = "error" /\ payload.response = None
  /\ Len(payload.steps) = 3
  /\ payload.steps[3].module = "Act_RAG_RetrieveSimilarCases"

\* ------------------------------------------------------------------------
\* Properties of the evidence step (SpecEngine)
\* ------------------------------------------------------------------------

\* C18: fusion raises the confidence only on strong evidence for a
\* non-vague, categorized complaint: whenever the confidence after the
\* evidence step is greater than before it, the evidence was strong, the
\* complaint was not vague and its category was not unknown.
C18_RaisedOnlyOnStrongEvidence ==
  (Decided /\ call.fused > call.capped)
    => /\ evidence.kind = "dict"
       /\ strong_evidence(evidence)
       /\ ~call.is_vague
       /\ Get(parsed.category) # "unknown"

\* The floor of the mild penalty lifts a confidence below 0.20: weak evidence
\* raises an unknown-category complaint.
C18_PenaltyRaises ==
  /\ Decided /\ call.branch = "penalty"
  /\ Get(parsed.category) = "unknown"
  /\ ~strong_evidence(evidence)
  /\ call.capped = MinConfidence /\ call.fused = WeakFloor

\* Evidence was passed to the call (anything but evidence=None).
EvidenceSupplied == evidence.kind # "None"

\* The evidence names a winning agency and carries a top score.
EvidenceFusable ==
  /\ evidence.kind = "dict"
  /\ Truthy(top_agency_of(evidence.agency_counts))
  /\ evidence.top_score # <<>>

\* The boost condition of the call that was made.
BoostHolds == boost_condition(parsed, evidence, call.is_vague)

\* C19 as stated: whenever evidence is supplied and the boost condition
\* does not hold, summaries with zero matches, without agency counts or
\* without a top score included, the confidence after the evidence step
\* is max(0.20, confidence - 0.05).
C19_PenaltyWheneverSupplied ==
  (Decided /\ EvidenceSupplied /\ ~BoostHolds)
    => call.fused = Max(WeakFloor, call.capped - WeakPenalty)

\* C19 amended: whenever evidence is supplied and the boost condition does
\* not hold, the confidence after the evidence step is
\* max(0.20, confidence - 0.05) if the evidence has a top agency and a top
\* score, and is the confidence before the step otherwise.
C19_PenaltyWhenFusable ==
  (Decided /\ EvidenceSupplied /\ ~BoostHolds)
    => call.fused = IF EvidenceFusable
                      THEN Max(WeakFloor, call.capped - WeakPenalty)
                      ELSE call.capped

\* C19 witness: weak evidence with an agency and a score lowered a
\* confidence that the floor does not reach.
C19_Witness ==
  /\ Decided /\ EvidenceSupplied /\ EvidenceFusable /\ ~BoostHolds
  /\ call.capped - WeakPenalty > WeakFloor
  /\ call.fused = call.capped - WeakPenalty

\* A summary of zero matches left a confidence above the floor untouched.
C19_ZeroMatchesUnchanged ==
  /\ Decided /\ evidence.kind = "dict" /\ evidence.total_matches = 0
  /\ call.capped > WeakFloor + WeakPenalty
  /\ call.fused = call.capped

\* The top agency of the evidence is not the agency the draft came in with.
TopAgencyDiffers == top_agency_of(evidence.agency_counts) # DraftIn.agency_guess

\* C20: when the evidence is strong, the complaint is not vague, its
\* category is not unknown and the top agency differs from the draft's
\* agency_guess, the call sets agency_guess to the top agency, returns the
\* top agency as the decision's agency, sets the confidence to
\* min(0.80, max(confidence, 0.60) + 0.10), and the returned confidence is
\* in [0.60, 0.80].
C20_Override ==
  (Decided /\ evidence.kind = "dict" /\ BoostHolds /\ TopAgencyDiffers)
    => /\ call.draft.agency_guess = top_agency_of(evidence.agency_counts)
       /\ call.decision.agency = top_agency_of(evidence.agency_counts)
       /\ call.fused = Min(OverrideCap, Max(call.capped, OverrideBase) + OverrideBoost)
       /\ call.decision.confidence >= OverrideBase
       /\ call.decision.confidence <= OverrideCap

\* C20 witness: strong DSNY evidence overrode an NYPD draft whose
\* confidence was below 0.60.
C20_Witness ==
  /\ Decided /\ evidence.kind = "dict" /\ BoostHolds /\ TopAgencyDiffers
  /\ call.branch = "override"
  /\ DraftIn.agency_guess = "NYPD"
  /\ call.decision.agency = "DSNY"
  /\ call.capped < OverrideBase
  /\ call.decision.confidence = OverrideBase + OverrideBoost

\* ------------------------------------------------------------------------
\* Frame of build_dispatch_decision (SpecEngine)
\* ------------------------------------------------------------------------

\* The step in which the call is made.
DecideStep == epc = "ready" /\ epc' = "decided"

\* C21: the call leaves the parsed complaint, the evidence and the draft's
\* urgency_guess, action_guess and confidence_stub unchanged in every
\* branch, changes the draft's agency_guess only in the override branch,
\* and returns the draft's urgency_guess and action_guess as the
\* decision's urgency and action.
C21_Frame ==
  [][DecideStep =>
       /\ parsed' = parsed
       /\ evidence' = evidence
       /\ draft_decision'.urgency_guess = draft_decision.urgency_guess
       /\ draft_decision'.action_guess = draft_decision.action_guess
       /\ draft_decision'.confidence_stub = draft_decision.confidence_stub
       /\ (draft_decision'.agency_guess # draft_decision.agency_guess
             => call'.branch = "override")
       /\ call'.decision.urgency = draft_decision.urgency_guess
       /\ call'.decision.action = draft_decision.action_guess]_vars

\* C21 witness: a call whose penalty branch saw a top agency other than
\* the draft's and left the draft's agency_guess alone.
C21_Witness ==
  /\ Decided /\ call.branch = "penalty"
  /\ top_agency_of(evidence.agency_counts) # call.draft_in.agency_guess
  /\ draft_decision = call.draft_in
  /\ call.decision.urgency = draft_decision.urgency_guess

\* An override changed the draft's agency_guess and nothing else of it.
C21_OverrideWrites ==
  /\ Decided /\ call.branch = "override"
  /\ draft_decision.agency_guess # call.draft_in.agency_guess
  /\ draft_decision = [call.draft_in EXCEPT !.agency_guess = draft_decision.agency_guess]

\* ------------------------------------------------------------------------
\* scripts/pinecone_upsert.py: main with --skip-existing and the preflight
\* ------------------------------------------------------------------------

MaxRecords == 3

\* --batch-size default
DefaultBatchSize == 100

\* --preflight-sample default
DefaultPreflightSample == 500

\* the chunk length preflight_existing_ids fetches with
FetchChunk == 100

FileIds == {"a", "b"}

\* A line of the JSONL file: a record with an "id" key or without one.
FileRecords == [id : FileIds \cup {Missing}]

UpsertArgs ==
  [ skip_existing    : BOOLEAN,
    preflight_sample : {0, 1, 2, DefaultPreflightSample},
    batch_size       : {1, 2, DefaultBatchSize} ]

\* [r["id"] for r in records if "id" in r]
RECURSIVE ids_of(_, _)
ids_of(rs, i) ==
  IF i > Len(rs) THEN <<>>
  ELSE (IF rs[i].id # Missing THEN <<rs[i].id>> ELSE <<>>) \o ids_of(rs, i + 1)

\* index.fetch(ids=chunk).vectors.keys(): the ids of the chunk in the index
fetch_keys(ixs, chunk) == {chunk[k] : k \in 1..Len(chunk)} \cap ixs

\* chunk_list(xs, n): xs[i:i + n] for i in range(0, len(xs), n)
chunk_list(xs, n) ==
  [c \in 1..((Len(xs) + n - 1) \div n) |->
     SubSeq(xs, (c - 1) * n + 1, Min(c * n, Len(xs)))]

\* preflight_existing_ids(index, ids, sample)
preflight_existing_ids(ixs, ids, sample) ==
  IF sample <= 0 THEN {}
  ELSE LET to_check == SubSeq(ids, 1, Min(sample, Len(ids)))
           chunks   == chunk_list(to_check, FetchChunk)
       IN  UNION {fetch_keys(ixs, chunks[c]) : c \in 1..Len(chunks)}

\* [r for r in records if r.get("id") not in existing_set]
RECURSIVE not_existing(_, _, _)
not_existing(rs, i, existing_set) ==
  IF i > Len(rs) THEN <<>>
  ELSE (IF rs[i].id \notin existing_set THEN <<rs[i]>> ELSE <<>>)
         \o not_existing(rs, i + 1, existing_set)

UpsertInit ==
  /\ upsert_args \in UpsertArgs
  /\ index_ids \in SUBSET FileIds
  /\ records \in UNION {[1..n -> FileRecords] : n \in 0..MaxRecords}
  /\ existing_ids = {}
  /\ buffer = <<>>
  /\ cursor = 0
  /\ upsert_calls = <<>>
  /\ upc = "loaded"
  /\ parsed = None /\ draft_decision = None /\ evidence = None
  /\ epc = "idle" /\ call = NotCalled /\ review = NotGated
  /\ ExtractIdle
  /\ ExecuteIdle
  /\ PairIdle
  /\ EnvIdle

\* main from the loaded records to the upsert loop: the preflight and the
\* --skip-existing filter.
Preflight ==
  /\ upc = "loaded"
  /\ IF records = <<>>
       THEN /\ upc' = "done"
            /\ UNCHANGED <<records, existing_ids>>
       ELSE /\ existing_ids' = preflight_existing_ids(index_ids, ids_of(records, 1),
                                                      upsert_args.preflight_sample)
            /\ records' = IF upsert_args.skip_existing /\ existing_ids' # {}
                            THEN not_existing(records, 1, existing_ids')
                            ELSE records
            /\ upc' = IF records' = <<>> THEN "done" ELSE "loop"
  /\ UNCHANGED <<upsert_args, index_ids, buffer, cursor, upsert_calls,
                 engine_vars, extract_vars, request_vars, store_vars, pair_vars,
                 env_vars>>

\* One turn of `for r in records`: append, and upsert a full buffer.
TakeRecord ==
  /\ upc = "loop"
  /\ cursor < Len(records)
  /\ cursor' = cursor + 1
  /\ LET filled == Append(buffer, records[cursor + 1])
     IN  IF Len(filled) >= upsert_args.batch_size
           THEN /\ upsert_calls' = Append(upsert_calls, filled)
                /\ buffer' = <<>>
           ELSE /\ buffer' = filled
                /\ UNCHANGED upsert_calls
  /\ UNCHANGED <<upsert_args, index_ids, records, existing_ids, upc,
                 engine_vars, extract_vars, request_vars, store_vars, pair_vars,
                 env_vars>>

\* After the loop: upsert what is left in the buffer.
FlushBuffer ==
  /\ upc = "loop"
  /\ cursor = Len(records)
  /\ upsert_calls' = IF buffer # <<>> THEN Append(upsert_calls, buffer)
                                       ELSE upsert_calls
  /\ upc' = "done"
  /\ UNCHANGED <<upsert_args, index_ids, records, existing_ids, buffer, cursor,
                 engine_vars, extract_vars, request_vars, store_vars, pair_vars,
                 env_vars>>

UpsertNext == Preflight \/ TakeRecord \/ FlushBuffer

SpecUpsert == UpsertInit /\ [][UpsertNext]_vars

\* The ids passed to index.upsert so far.
UpsertedIds ==
  UNION {{upsert_calls[c][k].id : k \in 1..Len(upsert_calls[c])} :
           c \in 1..Len(upsert_calls)}

\* C22 as stated: with --skip-existing, no record whose id is already in
\* the index is passed to index.upsert, whatever the file length, the
\* --preflight-sample value and the ids in the index.
C22_SkipExistingSkipsAll ==
  (upc # "idle" /\ upsert_args.skip_existing)
    => UpsertedIds \cap index_ids = {}

\* With --skip-existing, a record beyond the preflight sample whose id is
\* in the index was upserted.
C22_ExistingUpserted ==
  /\ upc = "done" /\ upsert_args.skip_existing
  /\ upsert_args.preflight_sample = 1
  /\ records = <<[id |-> "a"], [id |-> "b"]>>
  /\ index_ids = {"b"}
  /\ existing_ids = {}
  /\ "b" \in UpsertedIds

\* With --skip-existing, no record whose id the preflight found is passed
\* to index.upsert.
C22_FoundIdsSkipped ==
  (upc # "idle" /\ upsert_args.skip_existing)
    => UpsertedIds \cap existing_ids = {}

\* ------------------------------------------------------------------------
\* Boosting branches of the evidence step (SpecEngine)
\* ------------------------------------------------------------------------

\* The draft carries one of the two confidence_stub values execute drafts.
ExecuteStub == DraftIn.confidence_stub \in {<<UnknownStub>>, <<KnownStub>>}

\* C23 as stated: in the override and confirm branches the confidence
\* after the evidence step is never lower than the confidence before it,
\* category safety with urgency high included.
C23_BoostNeverLowers ==
  (Decided /\ ExecuteStub /\ call.branch \in {"override", "confirm"})
    => call.fused >= call.capped

\* Agreeing strong evidence lowered a safety/high complaint with location
\* and time from 0.85 to 0.75.
C23_ConfirmLowers ==
  /\ Decided /\ ExecuteStub /\ call.branch = "confirm"
  /\ Get(parsed.category) = "safety" /\ DraftIn.urgency_guess = "high"
  /\ call.capped = SafetyHighFloor
  /\ call.fused = ConfirmCap
  /\ call.decision.confidence < call.capped

\* ------------------------------------------------------------------------
\* Agreeing against contradicting evidence (SpecPair)
\* ------------------------------------------------------------------------

\* Callers r and q passed the same complaint and draft, and evidence of
\* the same strength (matches, top count, top score).
SameCallSameStrength(r, q) ==
  /\ callers[r].given.parsed = callers[q].given.parsed
  /\ callers[r].given.draft = callers[q].given.draft
  /\ callers[r].given.evidence.kind = "dict"
  /\ callers[q].given.evidence.kind = "dict"
  /\ callers[r].given.evidence.total_matches = callers[q].given.evidence.total_matches
  /\ callers[r].given.evidence.top_score = callers[q].given.evidence.top_score
  /\ top_count_of(callers[r].given.evidence.agency_counts)
       = top_count_of(callers[q].given.evidence.agency_counts)

\* C24 as stated: for the same confidence before fusion and equally strong
\* evidence, the confirm branch returns a confidence at least as high as
\* the override branch.
C24_ConfirmAtLeastOverride ==
  \A r \in Callers :
    (/\ BothReturned
     /\ SameCallSameStrength(r, other(r))
     /\ callers[r].branch = "confirm"
     /\ callers[other(r)].branch = "override")
      => callers[r].decision.confidence >= callers[other(r)].decision.confidence

\* For the noise complaint with stub 0.55, agreeing evidence returned 0.60
\* and contradicting evidence of the same strength 0.70.
C24_OverrideHigher ==
  /\ BothReturned
  /\ SameCallSameStrength(1, 2)
  /\ callers[1].branch = "confirm" /\ callers[2].branch = "override"
  /\ callers[1].decision.confidence = KnownStub + ConfirmBoost
  /\ callers[2].decision.confidence = OverrideBase + OverrideBoost

\* ------------------------------------------------------------------------
\* Urgency against category (SpecExtract)
\* ------------------------------------------------------------------------

\* The text holds a phrase of estimate_urgency's high_signals.
HasHighSignal == has_any(Strip(Lower(input_text)), high_signals)

\* C25 as stated: every text for which estimate_urgency returns "high"
\* with a high signal present is classified "safety", so that execute
\* drafts the emergency agency and the escalation action for it.
C25_HighSignalIsSafety ==
  (signals.done /\ HasHighSignal /\ signals.urgency = "high")
    => /\ signals.category = "safety"
       /\ action_guess_of(signals.category)
            = "Escalate immediately to emergency services"

\* "not breathing" is urgency high, category unknown, and drafted as a
\* ticket for review.
C25_NotBreathingUnknown ==
  /\ signals.done /\ input_text = "not breathing"
  /\ HasHighSignal /\ signals.urgency = "high"
  /\ signals.category = "unknown"
  /\ action_guess_of(signals.category) = "Log ticket for review"

\* ------------------------------------------------------------------------
\* Escalation of the drafts execute makes
\* ------------------------------------------------------------------------

\* The parsed complaint and the draft have the shape execute gives them:
\* a category string, no location_details key, confidence_stub 0.35 for
\* the unknown category and 0.55 otherwise.
ExecuteShaped ==
  /\ parsed.category \notin {Missing, None}
  /\ parsed.location_details = Missing
  /\ DraftIn.confidence_stub
       = IF parsed.category = "unknown" THEN <<UnknownStub>> ELSE <<KnownStub>>

\* On the decide-and-gate segment: a draft of execute that is not
\* safety/high passes the gate only after an override or a confirm, and a
\* vague or unknown complaint never passes it.
C26_GateOfExecuteDrafts ==
  (epc = "gated" /\ ExecuteShaped)
    => /\ ((~SafetyHigh /\ ~review.needs_human_review)
             => call.branch \in {"override", "confirm"})
       /\ ((call.is_vague \/ parsed.category = "unknown")
             => review.needs_human_review)

\* The gate of the call ran and sent the complaint to human review.
Escalated == review # NotGated /\ review.needs_human_review

\* C26 as stated, in execute: once retrieval has returned, a complaint
\* with vague text or unknown category, and a complaint that is not
\* safety/high and for which retrieval brought no evidence, is escalated
\* to human review.
C26_ExecuteEscalates ==
  (/\ pc = "done" /\ RetrievalReturned
   /\ \/ is_vague(parsed)
      \/ parsed.category = "unknown"
      \/ (~SafetyHigh /\ cases.kind \in {"skipped", "failed"}))
    => Escalated

\* A vague complaint of unknown category whose retrieval was skipped ended
\* in the error response, the gate never run.
C26_NotEscalated ==
  /\ pc = "done" /\ cases.kind = "skipped"
  /\ is_vague(parsed) /\ parsed.category = "unknown"
  /\ review = NotGated
  /\ payload.status = "error"

\* ------------------------------------------------------------------------
\* The recorded Decide step (SpecEngine)
\* ------------------------------------------------------------------------

\* The positions of the Decide_DispatchDecision steps in the trace.
DecideSteps ==
  {i \in 1..Len(steps) : steps[i].module = "Decide_DispatchDecision"}

C27_StepShowsOverride ==
  /\ Decided /\ call.branch = "override"
  /\ DecideSteps = {1}
  /\ DraftIn.agency_guess = "NYPD"
  /\ steps[1].prompt.draft_decision.agency_guess = "DSNY"
  /\ steps[1].response.agency = "DSNY"

\* Without an override the recorded step shows the draft as passed.
C27_StepShowsDraftUnlessOverride ==
  (Decided /\ call.branch # "override") =>
    \A i \in DecideSteps : steps[i].prompt.draft_decision = DraftIn

\* ------------------------------------------------------------------------
\* The store writes of execute (main.py:580-615), entered from the gate
\* ------------------------------------------------------------------------

\* The segment is entered for the stored complaint or for a prompt.
StoreRequests == [prompt : {None, C5Text}, complaint_id : {None, "c1"}]

StoreInit ==
  /\ parsed \in PairParsed
  /\ draft_decision \in PairDrafts
  /\ evidence \in PairEvidence \ {NoEvidence}
  /\ epc = "ready"
  /\ call = NotCalled
  /\ review = NotGated
  /\ req \in StoreRequests
  /\ Truthy(req.complaint_id) # Truthy(req.prompt)
  /\ complaint = IF Truthy(req.complaint_id)
                   THEN StoredComplaints[req.complaint_id] ELSE NoComplaint
  /\ complaint_status \in {"new", "needs_human"}
  /\ executions = <<>>
  /\ pc = "retrieved" /\ prompt_text = parsed.complaint_text
  /\ cases = NoCases /\ steps = <<>> /\ payload = NoPayload
  /\ ExtractIdle
  /\ PairIdle
  /\ UpsertIdle
  /\ EnvIdle

\* The response text, the payload, the two store writes and the return.
Store ==
  /\ epc = "gated"
  /\ LET response_text == format_user_response(call.decision)
     IN  /\ StoreWrites(call, review, steps, response_text)
         /\ Return(ok_payload(response_text, steps))
  /\ epc' = "stored"
  /\ UNCHANGED <<parsed, draft_decision, evidence, call, review, req, complaint,
                 prompt_text, cases, steps, extract_vars, pair_vars,
                 upsert_vars, env_vars>>

StoreNext == Decide \/ Gate \/ Store

SpecStore == StoreInit /\ [][StoreNext]_vars

\* The step in which the store writes run.
StoreStep == epc = "gated" /\ epc' = "stored"

\* C28: the status of the complaint is set to "processed" only after an
\* execution row with escalated = false was inserted for it and to
\* "needs_human" only after one with escalated = true; when the insert or
\* the update fails the status write is skipped or lost, and the response
\* returned is the same in every case.
C28_StatusAfterInsert ==
  [][StoreStep =>
       /\ complaint_status' # complaint_status
            => /\ complaint_status' \in {"processed", "needs_human"}
               /\ \E i \in 1..Len(executions') :
                    /\ executions'[i].complaint_id = req.complaint_id
                    /\ executions'[i].escalated
                         = (complaint_status' = "needs_human")
       /\ payload' = ok_payload(format_user_response(call.decision), steps)]_vars

\* C28 witness: the status went from "needs_human" to "processed" with a
\* row of escalated = false in the table.
C28_Witness ==
  /\ epc = "stored" /\ req.complaint_id = "c1"
  /\ complaint_status = "processed"
  /\ Len(executions) = 1 /\ ~executions[1].escalated
  /\ payload.status = "ok"

\* The insert failed: no row, the status as it was, the response "ok".
C28_InsertFailed ==
  /\ epc = "stored" /\ req.complaint_id = "c1"
  /\ executions = <<>> /\ complaint_status = "new"
  /\ payload.status = "ok"

\* ------------------------------------------------------------------------
\* core/rag.py: _load_dotenv_once under concurrent retrieve_similar_cases
\* ------------------------------------------------------------------------

\* The threads that serve /api/execute calls.
Workers == {1, 2}

\* The keys the .env file defines, line by line: Pinecone is configured.
DotenvFile == <<"PINECONE_API_KEY", "PINECONE_INDEX_NAME">>

\* The names retrieve_similar_cases asks _get_env for, in order.
EnvNames == <<"PINECONE_API_KEY", "PINECONE_INDEX_NAME", "PINECONE_HOST">>

EnvInit ==
  /\ dotenv_loaded = FALSE
  /\ environ \in SUBSET {"PINECONE_HOST"}
  /\ workers = [w \in Workers |->
                  [pos |-> "test", k |-> 1, line |-> 0, got |-> {},
                   result |-> None]]
  /\ parsed = None /\ draft_decision = None /\ evidence = None
  /\ epc = "idle" /\ call = NotCalled /\ review = NotGated
  /\ ExtractIdle
  /\ ExecuteIdle
  /\ PairIdle
  /\ UpsertIdle

\* if _DOTENV_LOADED: return
TestFlag(w) ==
  /\ workers[w].pos = "test"
  /\ workers' = [workers EXCEPT
                   ![w].pos = IF dotenv_loaded THEN "getenv" ELSE "set"]
  /\ UNCHANGED <<dotenv_loaded, environ,
                 engine_vars, extract_vars, request_vars, store_vars, pair_vars,
                 upsert_vars>>

\* _DOTENV_LOADED = True, before the file is opened
SetFlag(w) ==
  /\ workers[w].pos = "set"
  /\ dotenv_loaded' = TRUE
  /\ workers' = [workers EXCEPT ![w].pos = "read", ![w].line = 1]
  /\ UNCHANGED <<environ,
                 engine_vars, extract_vars, request_vars, store_vars, pair_vars,
                 upsert_vars>>

\* One line of the file: os.environ.setdefault(key, value); after the last
\* line _load_dotenv_once returns.
ReadLine(w) ==
  /\ workers[w].pos = "read"
  /\ IF workers[w].line > Len(DotenvFile)
       THEN /\ workers' = [workers EXCEPT ![w].pos = "getenv"]
            /\ UNCHANGED environ
       ELSE /\ environ' = environ \cup {DotenvFile[workers[w].line]}
            /\ workers' = [workers EXCEPT ![w].line = @ + 1]
  /\ UNCHANGED <<dotenv_loaded,
                 engine_vars, extract_vars, request_vars, store_vars, pair_vars,
                 upsert_vars>>

\* v = os.getenv(name) of _get_env, and on to the next _get_env call.
Getenv(w) ==
  /\ workers[w].pos = "getenv"
  /\ workers' = [workers EXCEPT
                   ![w].got = @ \cup ({EnvNames[workers[w].k]} \cap environ),
                   ![w].k = IF @ < Len(EnvNames) THEN @ + 1 ELSE @,
                   ![w].pos = IF workers[w].k < Len(EnvNames)
                                THEN "test" ELSE "decide"]
  /\ UNCHANGED <<dotenv_loaded, environ,
                 engine_vars, extract_vars, request_vars, store_vars, pair_vars,
                 upsert_vars>>

\* if not api_key or not index_name: return the skipped result; else the
\* query goes ahead.
Configured(w) ==
  /\ workers[w].pos = "decide"
  /\ workers' = [workers EXCEPT
                   ![w].pos = "done",
                   ![w].result =
                      IF {"PINECONE_API_KEY", "PINECONE_INDEX_NAME"}
                           \subseteq workers[w].got
                        THEN "queried" ELSE "Pinecone not configured"]
  /\ UNCHANGED <<dotenv_loaded, environ,
                 engine_vars, extract_vars, request_vars, store_vars, pair_vars,
                 upsert_vars>>

EnvNext ==
  \E w \in Workers :
    TestFlag(w) \/ SetFlag(w) \/ ReadLine(w) \/ Getenv(w) \/ Configured(w)

SpecEnv == EnvInit /\ [][EnvNext]_vars

\* _load_dotenv_once has returned to worker w at least once.
LoadReturned(w) == workers[w].pos \in {"getenv", "decide", "done"} \/ workers[w].k > 1

\* Every key of the .env file is set in the process environment.
FileKeysSet == \A i \in 1..Len(DotenvFile) : DotenvFile[i] \in environ

\* C29 as stated: under every interleaving, once _load_dotenv_once has
\* returned to any caller every key of the .env file is set in the
\* environment, and no call of retrieve_similar_cases returns the skipped
\* result "Pinecone not configured".
C29_KeysSetOnceLoadReturned ==
  /\ (workers # <<>> /\ \E w \in Workers : LoadReturned(w)) => FileKeysSet
  /\ workers # <<>> =>
       \A w \in Workers : workers[w].result # "Pinecone not configured"

\* A call found the flag set while the other thread had not read the file
\* yet, and returned the skipped result.
C29_SkippedWhileLoading ==
  /\ workers # <<>>
  /\ \E w \in Workers :
       /\ workers[w].result = "Pinecone not configured"
       /\ workers[3 - w].pos = "read"
       /\ dotenv_loaded
       /\ ~FileKeysSet

=============================================================================
